---------------------------- MODULE Spec2Model ----------------------------
(***************************************************************************)
(* er-fog-vizu: the exploration/discovery state machine of the host, the  *)
(* snapshot a host broadcasts, the viewer that applies it, the relay       *)
(* connection (reconnect backoff, snapshot throttle) of the sync layer,    *)
(* the router of the web application and the discoveries of the server.    *)
(*                                                                         *)
(* Zone ids are strings.  A link key `${s}|${t}` (state.js makeLinkId) is  *)
(* the pair <<s, t>>: zone ids hold no "|".  A placeholder id              *)
(* `???_${s}_${t}` is the string itself (PlaceholderIdOf).                 *)
(***************************************************************************)
EXTENDS Integers, Sequences, FiniteSets, TLC

VARIABLES
    graphData,          \* state.graphData.links of the host, oneWay computed
    explorationMode,    \* state.explorationMode of the host
    explorationState,   \* state.explorationState of the host
    storage,            \* localStorage: << >> or the one record of the seed
    viewerGraph,        \* state.graphData of the viewer page
    viewerMode,         \* state.explorationMode of the viewer page
    viewerState,        \* state.explorationState of the viewer page
    bootstrapTimer,     \* the 500 ms timer of buildGraphFromSessionData
    viewerLayout,       \* node positions and zoom transform of the viewer page
    sync,               \* sync.js: the connection of one page to the relay
    relay,              \* the relay and the network: "unstable", "up", "down"
    dashboard,          \* the new-game form of the dashboard page
    router,             \* router.js: currentCleanup and the calls of handleRoute
    serverGame,         \* the row of a game in the server's database
    lastOp              \* history: the last handler that ran, with its input

hostVars == <<graphData, explorationMode, explorationState, storage>>

viewerVars == <<viewerGraph, viewerMode, viewerState, bootstrapTimer, viewerLayout>>

syncVars == <<sync, relay>>

vars == <<hostVars, viewerVars, syncVars, dashboard, router, serverGame, lastOp>>

NULL == "null"

START_NODE == "Chapel of Anticipation"

\* The zones of the loaded spoiler log (graphData.nodes).
Zones ==
    {START_NODE, "Roundtable Hold", "Limgrave", "Stormveil Castle"}

AVAILABLE_TAGS == <<"warning", "later", "loot", "done", "star", "blocked", "key">>

\* The tag kinds the user toggles.
TagIds == {AVAILABLE_TAGS[5]}

\* How many of the connection lines below a spoiler log may hold.
NumLinks == 6

\* The longest spoiler log text, in lines.
MaxLines == 3

\* How many absorbed calls of syncState a throttle timer counts.
MaxAbsorbed == 1

Conn(s, t, ty, ow) ==
    [source |-> s, target |-> t, type |-> ty, isInherentlyOneWay |-> ow]

\* Connection lines as parseConnectionLine returns them; a spoiler log holds
\* any sub-list of the first NumLinks of them, in this order.
ConnectionLines ==
    << Conn(START_NODE, "Roundtable Hold", "preexisting", FALSE),
       Conn("Roundtable Hold", "Limgrave", "random", FALSE),
       Conn("Limgrave", "Stormveil Castle", "preexisting", FALSE),
       Conn("Stormveil Castle", "Limgrave", "preexisting", FALSE),
       Conn("Stormveil Castle", "Limgrave", "random", FALSE),
       Conn("Roundtable Hold", "Stormveil Castle", "random", TRUE),
       Conn("Stormveil Castle", START_NODE, "preexisting", FALSE),
       Conn("Roundtable Hold", "Limgrave", "preexisting", FALSE),
       Conn("Limgrave", START_NODE, "random", TRUE) >>

Min(a, b) == IF a < b THEN a ELSE b

RECURSIVE SubList(_, _, _)
SubList(seq, keep, i) ==
    IF i > Len(seq) THEN << >>
    ELSE (IF i \in keep THEN <<seq[i]>> ELSE << >>) \o SubList(seq, keep, i + 1)

\* The link lists a parsed spoiler log can hold.
SpoilerLogs ==
    {SubList(ConnectionLines, keep, 1) :
        keep \in SUBSET (1..Min(NumLinks, Len(ConnectionLines)))}

-----------------------------------------------------------------------------
(* Graph model                                                             *)

\* computeOneWayLinks: random links are one-way only when flagged, a
\* preexisting link is one-way iff no reverse link is in the list.
\* Mutant: a preexisting link is one-way only when it is marked so.
computeOneWayLinks_MarkOnly(links) ==
    [i \in DOMAIN links |->
        [source |-> links[i].source,
         target |-> links[i].target,
         type   |-> links[i].type,
         oneWay |-> links[i].isInherentlyOneWay]]

\* Mutant: a random link is one-way when it has no reverse link.
computeOneWayLinks_RandomByReverse(links) ==
    LET linkPairs == {<<links[i].source, links[i].target>> : i \in DOMAIN links}
    IN [i \in DOMAIN links |->
          [source |-> links[i].source,
           target |-> links[i].target,
           type   |-> links[i].type,
           oneWay |-> <<links[i].target, links[i].source>> \notin linkPairs]]

computeOneWayLinks(links) ==
    LET linkPairs == {<<links[i].source, links[i].target>> : i \in DOMAIN links}
    IN [i \in DOMAIN links |->
          [source |-> links[i].source,
           target |-> links[i].target,
           type   |-> links[i].type,
           oneWay |-> IF links[i].type = "random"
                      THEN links[i].isInherentlyOneWay
                      ELSE <<links[i].target, links[i].source>> \notin linkPairs]]

-----------------------------------------------------------------------------
(* state.js: exploration state helpers                                     *)

makeLinkId(sourceId, targetId) == <<sourceId, targetId>>

isLinkDiscovered(es, sourceId, targetId) ==
    makeLinkId(sourceId, targetId) \in es.discoveredLinks

discoverNode(es, nodeId) ==
    [es EXCEPT !.discovered = @ \cup {nodeId}]

RemoveKey(f, k) == [x \in (DOMAIN f) \ {k} |-> f[x]]

PutKey(f, k, v) == [x \in (DOMAIN f) \cup {k} |-> IF x = k THEN v ELSE f[x]]

undiscoverNode(es, nodeId) ==
    IF nodeId \in es.discovered
    THEN [es EXCEPT !.discovered = @ \ {nodeId}, !.tags = RemoveKey(@, nodeId)]
    ELSE es

\* Mutant: the reverse key is recorded whatever the flag.
discoverLink_AlwaysBoth(es, sourceId, targetId, bidirectional) ==
    [es EXCEPT !.discoveredLinks =
        @ \cup {makeLinkId(sourceId, targetId), makeLinkId(targetId, sourceId)}]

discoverLink(es, sourceId, targetId, bidirectional) ==
    [es EXCEPT !.discoveredLinks =
        @ \cup {makeLinkId(sourceId, targetId)}
          \cup (IF bidirectional THEN {makeLinkId(targetId, sourceId)} ELSE {})]

\* Mutant: only the links that leave the node are forgotten.
undiscoverLinksForNode_SourceOnly(es, nodeId) ==
    [es EXCEPT !.discoveredLinks = {linkId \in @ : linkId[1] # nodeId}]

\* linkId.split('|') gives [source, target]
undiscoverLinksForNode(es, nodeId) ==
    [es EXCEPT !.discoveredLinks =
        {linkId \in @ : ~(linkId[1] = nodeId \/ linkId[2] = nodeId)}]

getNodeTags(es, nodeId) ==
    IF nodeId \in DOMAIN es.tags THEN es.tags[nodeId] ELSE << >>

setNodeTags(es, nodeId, tags) ==
    IF Len(tags) > 0
    THEN [es EXCEPT !.tags = PutKey(@, nodeId, tags)]
    ELSE [es EXCEPT !.tags = RemoveKey(@, nodeId)]

\* currentTags.splice(tagIndex, 1) or currentTags.push(tagId)
toggleNodeTag(es, nodeId, tagId) ==
    LET currentTags == getNodeTags(es, nodeId)
        present == \E i \in DOMAIN currentTags : currentTags[i] = tagId
        toggled == IF present
                   THEN SelectSeq(currentTags, LAMBDA t : t # tagId)
                   ELSE Append(currentTags, tagId)
    IN setNodeTags(es, nodeId, toggled)

\* An order of the members of a set (a JS Set iterates in insertion order;
\* the engine's results do not depend on it).
RECURSIVE SetToSeq(_)
SetToSeq(S) ==
    IF S = {} THEN << >>
    ELSE LET x == CHOOSE y \in S : TRUE IN <<x>> \o SetToSeq(S \ {x})

SeqToSet(seq) == {seq[i] : i \in DOMAIN seq}

\* Object.fromEntries(map): the object, as the set of its key/value entries.
fromEntries(map) == {<<k, map[k]>> : k \in DOMAIN map}

\* new Map(Object.entries(object))
entriesToMap(entries) ==
    [k \in {en[1] : en \in entries} |-> (CHOOSE en \in entries : en[1] = k)[2]]

\* saveExplorationToStorage: the record holds the members of the two sets as
\* arrays (Array.from) and the tags as an object.
saveExplorationToStorage(es) ==
    [discovered |-> SetToSeq(es.discovered),
     discoveredLinks |-> SetToSeq(es.discoveredLinks),
     tags |-> fromEntries(es.tags)]

\* loadExplorationFromStorage: new Set(parsed.discovered), ...
\* Mutant: the tags of the saved record are not read back.
loadExplorationFromStorage_WithoutTags(saved) ==
    [discovered |-> SeqToSet(saved.discovered),
     discoveredLinks |-> SeqToSet(saved.discoveredLinks),
     tags |-> << >>]

\* (parsed.discoveredLinks || []: a record saved before the links were
\* tracked has no such field)
loadExplorationFromStorage(saved) ==
    [discovered |-> SeqToSet(saved.discovered),
     discoveredLinks |-> IF "discoveredLinks" \in DOMAIN saved
                         THEN SeqToSet(saved.discoveredLinks) ELSE {},
     tags |-> entriesToMap(saved.tags)]

-----------------------------------------------------------------------------
(* Exploration engine                                                      *)

EmptyExplorationState ==
    [discovered |-> {}, discoveredLinks |-> {}, tags |-> << >>]

\* The viaLink argument when it is null; otherwise it is a record with the
\* field oneWay.
NoLink == [isNull |-> TRUE, oneWay |-> FALSE]

ViaLink(oneWay) == [isNull |-> FALSE, oneWay |-> oneWay]

\* discoverWithPreexisting(areaId, fromNodeId, viaLink).  The forEach over
\* graphData.links is the recursion on the index i, each step reading the
\* state the earlier steps left.
RECURSIVE discoverWithPreexisting(_, _, _, _, _), FollowPreexisting(_, _, _, _)

\* Mutant: a two-way preexisting link is followed from its source only.
FollowLink_ForwardOnly(es, links, areaId, link) ==
    IF link.type # "preexisting" THEN es
    ELSE IF link.source = areaId
    THEN (IF link.target \notin es.discovered
          THEN discoverWithPreexisting(es, links, link.target, areaId,
                                       ViaLink(link.oneWay))
          ELSE discoverLink(es, areaId, link.target, ~link.oneWay))
    ELSE es

\* The body of the forEach for one link.
FollowLink(es, links, areaId, link) ==
    IF link.type # "preexisting" THEN es
    ELSE IF link.source = areaId
    THEN (IF link.target \notin es.discovered
          THEN discoverWithPreexisting(es, links, link.target, areaId,
                                       ViaLink(link.oneWay))
          ELSE discoverLink(es, areaId, link.target, ~link.oneWay))
    ELSE IF link.target = areaId /\ ~link.oneWay
    THEN (IF link.source \notin es.discovered
          THEN discoverWithPreexisting(es, links, link.source, areaId,
                                       ViaLink(link.oneWay))
          ELSE discoverLink(es, areaId, link.source, TRUE))
    ELSE es

FollowPreexisting(es, links, areaId, i) ==
    IF i > Len(links) THEN es
    ELSE FollowPreexisting(FollowLink(es, links, areaId, links[i]),
                           links, areaId, i + 1)

\* Mutant: the preexisting links are followed from a zone that was already
\* discovered too.
discoverWithPreexisting_NoEarlyReturn(es, links, areaId, fromNodeId, viaLink) ==
    LET isBidirectional == viaLink.isNull \/ ~viaLink.oneWay
        recorded == IF fromNodeId # NULL
                    THEN discoverLink(es, fromNodeId, areaId, isBidirectional)
                    ELSE es
    IN FollowPreexisting(discoverNode(recorded, areaId), links, areaId, 1)

discoverWithPreexisting(es, links, areaId, fromNodeId, viaLink) ==
    LET wasAlreadyDiscovered == areaId \in es.discovered
        isBidirectional == viaLink.isNull \/ ~viaLink.oneWay
        recorded == IF fromNodeId # NULL
                    THEN discoverLink(es, fromNodeId, areaId, isBidirectional)
                    ELSE es
    IN IF wasAlreadyDiscovered
       THEN recorded
       ELSE FollowPreexisting(discoverNode(recorded, areaId), links, areaId, 1)

\* Mutant: an undiscovered neighbour is discovered without the link that
\* leads to it being recorded.
PropagateLink_LinkNotRecorded(es, links, areaId, link) ==
    IF link.type # "preexisting" THEN es
    ELSE IF link.source = areaId
    THEN (IF link.target \notin es.discovered
          THEN discoverWithPreexisting(es, links, link.target, NULL, NoLink)
          ELSE discoverLink(es, areaId, link.target, ~link.oneWay))
    ELSE IF link.target = areaId /\ ~link.oneWay
    THEN (IF link.source \notin es.discovered
          THEN discoverWithPreexisting(es, links, link.source, NULL, NoLink)
          ELSE discoverLink(es, areaId, link.source, TRUE))
    ELSE es

\* Mutant: the propagation of a render follows a random link from its source
\* like a preexisting one.
PropagateLink_RandomForward(es, links, areaId, link) ==
    IF link.source = areaId
    THEN (IF link.target \notin es.discovered
          THEN discoverWithPreexisting(es, links, link.target, areaId,
                                       ViaLink(link.oneWay))
          ELSE discoverLink(es, areaId, link.target, ~link.oneWay))
    ELSE IF link.type = "preexisting" /\ link.target = areaId /\ ~link.oneWay
    THEN (IF link.source \notin es.discovered
          THEN discoverWithPreexisting(es, links, link.source, areaId,
                                       ViaLink(link.oneWay))
          ELSE discoverLink(es, areaId, link.source, TRUE))
    ELSE es

\* propagatePreexistingDiscoveries: for every area discovered at the call,
\* for every link.
\* The body of the inner forEach for one discovered area and one link.
PropagateLink(es, links, areaId, link) ==
    IF link.type # "preexisting" THEN es
    ELSE IF link.source = areaId
    THEN (IF link.target \notin es.discovered
          THEN discoverWithPreexisting(es, links, link.target, areaId,
                                       ViaLink(link.oneWay))
          ELSE discoverLink(es, areaId, link.target, ~link.oneWay))
    ELSE IF link.target = areaId /\ ~link.oneWay
    THEN (IF link.source \notin es.discovered
          THEN discoverWithPreexisting(es, links, link.source, areaId,
                                       ViaLink(link.oneWay))
          ELSE discoverLink(es, areaId, link.source, TRUE))
    ELSE es

RECURSIVE PropagateFrom(_, _, _, _), PropagateLinks(_, _, _, _)
PropagateLinks(es, links, areaId, i) ==
    IF i > Len(links) THEN es
    ELSE PropagateLinks(PropagateLink(es, links, areaId, links[i]),
                        links, areaId, i + 1)

PropagateFrom(es, links, toPropagate, k) ==
    IF k > Len(toPropagate) THEN es
    ELSE PropagateFrom(PropagateLinks(es, links, toPropagate[k], 1),
                       links, toPropagate, k + 1)

propagatePreexistingDiscoveries(es, links) ==
    PropagateFrom(es, links, SetToSeq(es.discovered), 1)

\* findReachableNodes: the breadth-first search from startNodeId over the
\* links that are discovered in either direction.
Enqueue(rq, nodeId) ==
    [reachable |-> rq.reachable \cup {nodeId}, queue |-> Append(rq.queue, nodeId)]

\* Mutant: reachability over the discovered zones, whatever the links' state.
ReachForward_AnyLink(es, link, currentId, linkDiscovered, rq) ==
    IF /\ link.source = currentId
       /\ link.target \in es.discovered
       /\ link.target \notin rq.reachable
    THEN Enqueue(rq, link.target)
    ELSE rq

\* Forward: the link leaves currentId, its target is discovered and not yet
\* reached, and the link is discovered.
ReachForward(es, link, currentId, linkDiscovered, rq) ==
    IF /\ link.source = currentId
       /\ link.target \in es.discovered
       /\ link.target \notin rq.reachable
       /\ linkDiscovered
    THEN Enqueue(rq, link.target)
    ELSE rq

\* Mutant: a one-way link is followed backward too.
ReachBackward_OneWayToo(es, link, currentId, linkDiscovered, rq) ==
    IF /\ link.target = currentId
       /\ link.source \in es.discovered
       /\ link.source \notin rq.reachable
       /\ linkDiscovered
    THEN Enqueue(rq, link.source)
    ELSE rq

\* Backward: the same from the target's side, for links that are not one-way.
ReachBackward(es, link, currentId, linkDiscovered, rq) ==
    IF /\ link.target = currentId
       /\ ~link.oneWay
       /\ link.source \in es.discovered
       /\ link.source \notin rq.reachable
       /\ linkDiscovered
    THEN Enqueue(rq, link.source)
    ELSE rq

ReachLink(es, link, currentId, linkDiscovered, rq) ==
    ReachBackward(es, link, currentId, linkDiscovered,
                  ReachForward(es, link, currentId, linkDiscovered, rq))

RECURSIVE ReachQueue(_, _, _, _), ReachLinks(_, _, _, _, _), ReachQueueNext(_, _, _)
ReachLinks(es, links, currentId, rq, i) ==
    IF i > Len(links) THEN rq
    ELSE ReachLinks(es, links, currentId,
                    ReachLink(es, links[i], currentId,
                              isLinkDiscovered(es, links[i].source, links[i].target)
                              \/ isLinkDiscovered(es, links[i].target, links[i].source),
                              rq),
                    i + 1)

ReachQueue(es, links, reachable, queue) ==
    IF queue = << >> THEN reachable
    ELSE ReachQueueNext(es, links,
                        ReachLinks(es, links, Head(queue),
                                   [reachable |-> reachable, queue |-> Tail(queue)], 1))

ReachQueueNext(es, links, rq) == ReachQueue(es, links, rq.reachable, rq.queue)

findReachableNodes(es, links, startNodeId) ==
    ReachQueue(es, links, {startNodeId}, <<startNodeId>>)

\* The nodes undiscoverArea removes after the requested one: the discovered
\* nodes the search did not reach.
\* Mutant: no zone is removed after the requested one.
ToUndiscover_Nothing(es, links) == {}

ToUndiscover(es, links) ==
    es.discovered \ findReachableNodes(es, links, START_NODE)

RECURSIVE UndiscoverAll(_, _)
UndiscoverAll(es, nodeIds) ==
    IF nodeIds = << >> THEN es
    ELSE UndiscoverAll(
            undiscoverLinksForNode(undiscoverNode(es, Head(nodeIds)), Head(nodeIds)),
            Tail(nodeIds))

UndiscoverUnreachable(es, links) ==
    UndiscoverAll(es, SetToSeq(ToUndiscover(es, links)))

\* Mutant: the guard on the start zone is missing.
undiscoverArea_NoStartGuard(es, links, areaId) ==
    UndiscoverUnreachable(
        undiscoverLinksForNode(undiscoverNode(es, areaId), areaId), links)

\* undiscoverArea up to its save: the state the function itself leaves.
undiscoverArea(es, links, areaId) ==
    IF areaId = START_NODE THEN es
    ELSE UndiscoverUnreachable(
            undiscoverLinksForNode(undiscoverNode(es, areaId), areaId), links)

\* renderGraph, as far as it changes the exploration state: in exploration
\* mode it propagates through the preexisting links before it draws.
renderGraph(es, links, mode) ==
    IF mode THEN propagatePreexistingDiscoveries(es, links) ELSE es

\* initExplorationState
initExplorationState(links) ==
    discoverWithPreexisting(EmptyExplorationState, links, START_NODE, NULL, NoLink)

-----------------------------------------------------------------------------
(* Placeholder synthesis (renderGraph in exploration mode)                 *)

Placeholder(sourceNodeId, realId, isUndiscoveredLink) ==
    [sourceNodeId |-> sourceNodeId, realId |-> realId,
     isUndiscoveredLink |-> isUndiscoveredLink]

\* Mutant: an undiscovered link between two discovered zones gets its
\* forward placeholder only.
LinkPlaceholders_ForwardOnly(es, link) ==
    LET sourceDiscovered == link.source \in es.discovered
        targetDiscovered == link.target \in es.discovered
        linkDiscovered == isLinkDiscovered(es, link.source, link.target)
                          \/ isLinkDiscovered(es, link.target, link.source)
    IN IF sourceDiscovered /\ targetDiscovered
       THEN (IF linkDiscovered THEN {}
             ELSE {Placeholder(link.source, link.target, TRUE)})
       ELSE IF sourceDiscovered /\ ~targetDiscovered
       THEN {Placeholder(link.source, link.target, FALSE)}
       ELSE IF ~sourceDiscovered /\ targetDiscovered /\ ~link.oneWay
       THEN {Placeholder(link.target, link.source, FALSE)}
       ELSE {}

\* Mutant: a one-way link whose target alone is discovered gets a placeholder
\* for its source.
LinkPlaceholders_OneWayFromTarget(es, link) ==
    LET sourceDiscovered == link.source \in es.discovered
        targetDiscovered == link.target \in es.discovered
        linkDiscovered == isLinkDiscovered(es, link.source, link.target)
                          \/ isLinkDiscovered(es, link.target, link.source)
    IN IF sourceDiscovered /\ targetDiscovered
       THEN (IF linkDiscovered THEN {}
             ELSE {Placeholder(link.source, link.target, TRUE)}
                  \cup (IF ~link.oneWay
                        THEN {Placeholder(link.target, link.source, TRUE)}
                        ELSE {}))
       ELSE IF sourceDiscovered /\ ~targetDiscovered
       THEN {Placeholder(link.source, link.target, FALSE)}
       ELSE IF ~sourceDiscovered /\ targetDiscovered
       THEN {Placeholder(link.target, link.source, FALSE)}
       ELSE {}

\* The placeholder nodes one link of graphData.links gives rise to.
LinkPlaceholders(es, link) ==
    LET sourceDiscovered == link.source \in es.discovered
        targetDiscovered == link.target \in es.discovered
        linkDiscovered == isLinkDiscovered(es, link.source, link.target)
                          \/ isLinkDiscovered(es, link.target, link.source)
    IN IF sourceDiscovered /\ targetDiscovered
       THEN (IF linkDiscovered THEN {}
             ELSE {Placeholder(link.source, link.target, TRUE)}
                  \cup (IF ~link.oneWay
                        THEN {Placeholder(link.target, link.source, TRUE)}
                        ELSE {}))
       ELSE IF sourceDiscovered /\ ~targetDiscovered
       THEN {Placeholder(link.source, link.target, FALSE)}
       ELSE IF ~sourceDiscovered /\ targetDiscovered /\ ~link.oneWay
       THEN {Placeholder(link.target, link.source, FALSE)}
       ELSE {}

placeholderNodes(es, links) ==
    UNION {LinkPlaceholders(es, links[i]) : i \in DOMAIN links}

\* `???_${sourceId}_${targetId}`, the template literal written out for the
\* zones of the model.
PlaceholderIdOf(sourceId, targetId) ==
    CASE <<sourceId, targetId>> = <<"Chapel of Anticipation", "Chapel of Anticipation">>
            -> "???_Chapel of Anticipation_Chapel of Anticipation"
      [] <<sourceId, targetId>> = <<"Chapel of Anticipation", "Roundtable Hold">>
            -> "???_Chapel of Anticipation_Roundtable Hold"
      [] <<sourceId, targetId>> = <<"Chapel of Anticipation", "Limgrave">>
            -> "???_Chapel of Anticipation_Limgrave"
      [] <<sourceId, targetId>> = <<"Chapel of Anticipation", "Stormveil Castle">>
            -> "???_Chapel of Anticipation_Stormveil Castle"
      [] <<sourceId, targetId>> = <<"Roundtable Hold", "Chapel of Anticipation">>
            -> "???_Roundtable Hold_Chapel of Anticipation"
      [] <<sourceId, targetId>> = <<"Roundtable Hold", "Roundtable Hold">>
            -> "???_Roundtable Hold_Roundtable Hold"
      [] <<sourceId, targetId>> = <<"Roundtable Hold", "Limgrave">>
            -> "???_Roundtable Hold_Limgrave"
      [] <<sourceId, targetId>> = <<"Roundtable Hold", "Stormveil Castle">>
            -> "???_Roundtable Hold_Stormveil Castle"
      [] <<sourceId, targetId>> = <<"Limgrave", "Chapel of Anticipation">>
            -> "???_Limgrave_Chapel of Anticipation"
      [] <<sourceId, targetId>> = <<"Limgrave", "Roundtable Hold">>
            -> "???_Limgrave_Roundtable Hold"
      [] <<sourceId, targetId>> = <<"Limgrave", "Limgrave">>
            -> "???_Limgrave_Limgrave"
      [] <<sourceId, targetId>> = <<"Limgrave", "Stormveil Castle">>
            -> "???_Limgrave_Stormveil Castle"
      [] <<sourceId, targetId>> = <<"Stormveil Castle", "Chapel of Anticipation">>
            -> "???_Stormveil Castle_Chapel of Anticipation"
      [] <<sourceId, targetId>> = <<"Stormveil Castle", "Roundtable Hold">>
            -> "???_Stormveil Castle_Roundtable Hold"
      [] <<sourceId, targetId>> = <<"Stormveil Castle", "Limgrave">>
            -> "???_Stormveil Castle_Limgrave"
      [] <<sourceId, targetId>> = <<"Stormveil Castle", "Stormveil Castle">>
            -> "???_Stormveil Castle_Stormveil Castle"

\* id.startsWith('???_')
IsPlaceholderId(id) ==
    \E sourceId \in Zones, targetId \in Zones : id = PlaceholderIdOf(sourceId, targetId)

\* The id of a placeholder node.
placeholderId(p) == PlaceholderIdOf(p.sourceNodeId, p.realId)

\* processedLinks: the ends of the visible links one link of graphData.links
\* becomes, an end being a zone or the id of a placeholder.
ProcessedLinks(es, link) ==
    LET sourceDiscovered == link.source \in es.discovered
        targetDiscovered == link.target \in es.discovered
        forward == placeholderId(Placeholder(link.source, link.target, FALSE))
        backward == placeholderId(Placeholder(link.target, link.source, FALSE))
    IN IF sourceDiscovered /\ targetDiscovered
       THEN (IF isLinkDiscovered(es, link.source, link.target)
                \/ isLinkDiscovered(es, link.target, link.source)
             THEN {<<link.source, link.target>>}
             ELSE {<<link.source, forward>>}
                  \cup (IF ~link.oneWay THEN {<<backward, link.target>>} ELSE {}))
       ELSE IF sourceDiscovered /\ ~targetDiscovered
       THEN {<<link.source, forward>>}
       ELSE IF ~sourceDiscovered /\ targetDiscovered /\ ~link.oneWay
       THEN {<<backward, link.target>>}
       ELSE {}

\* Mutant: the id depends on a value of the session: once a zone is tagged,
\* the two zones are written in the other order.
PlaceholderIds_WithSessionValue(es, links) ==
    {IF DOMAIN es.tags = {} THEN placeholderId(p)
     ELSE PlaceholderIdOf(p.realId, p.sourceNodeId) : p \in placeholderNodes(es, links)}

\* The ids of the placeholder nodes of one render.
PlaceholderIds(es, links) ==
    {placeholderId(p) : p \in placeholderNodes(es, links)}

\* visibleLinks.find(l => target === d.id || source === d.id): the first link
\* that is drawn to the placeholder.
relevantLink(es, links, p) ==
    LET touching == {i \in DOMAIN links : p \in LinkPlaceholders(es, links[i])}
    IN links[CHOOSE i \in touching : \A j \in touching : i <= j]

\* Mutant: the button of a placeholder carries the id of the node it is
\* drawn for, as the button of a regular node does.
PlaceholderClicks_NodeId(es, links) ==
    {[areaId |-> placeholderId(p), fromNodeId |-> p.sourceNodeId,
      viaLink |-> ViaLink(relevantLink(es, links, p).oneWay)] :
        p \in placeholderNodes(es, links)}

\* The arguments the "Mark as discovered" button of a pinned placeholder
\* passes to discoverArea.
PlaceholderClicks(es, links) ==
    {[areaId |-> p.realId, fromNodeId |-> p.sourceNodeId,
      viaLink |-> ViaLink(relevantLink(es, links, p).oneWay)] :
        p \in placeholderNodes(es, links)}

\* discoverArea called with its default arguments.
DirectCalls ==
    {[areaId |-> z, fromNodeId |-> NULL, viaLink |-> NoLink] : z \in Zones}

-----------------------------------------------------------------------------
(* Host: the handlers of the page that owns the exploration               *)

\* The zones whose tags the user edits.
TaggableZones == {"Limgrave"}

\* History: the handler that ran last, its arguments, and the zones its
\* engine call added to or removed from discovered.
Op(op, areaId, fromNodeId, delta) ==
    [op |-> op, areaId |-> areaId, fromNodeId |-> fromNodeId, delta |-> delta]

Delta(before, after) ==
    (before.discovered \ after.discovered) \cup (after.discovered \ before.discovered)

\* Every handler below ends with the render that its graphNeedsRender event
\* (main.js subscription) runs synchronously, and with the save of the result.
Commit(op, areaId, fromNodeId, after) ==
    /\ explorationState' = renderGraph(after, graphData, explorationMode)
    /\ storage' = <<saveExplorationToStorage(explorationState')>>
    /\ lastOp' = Op(op, areaId, fromNodeId, Delta(explorationState, after))

\* graph.js discover-btn handler -> Exploration.discoverArea
DiscoverArea ==
    /\ explorationMode
    /\ \E c \in PlaceholderClicks(explorationState, graphData) \cup DirectCalls :
          Commit("discover", c.areaId, c.fromNodeId,
                 discoverWithPreexisting(explorationState, graphData,
                                         c.areaId, c.fromNodeId, c.viaLink))
    /\ UNCHANGED <<graphData, explorationMode, viewerVars, syncVars, dashboard, router, serverGame>>

\* graph.js undiscover-btn handler -> Exploration.undiscoverArea
\* (undiscoverArea(START_NODE) returns before its save and its render)
UndiscoverArea ==
    /\ explorationMode
    /\ \E areaId \in Zones :
          IF areaId = START_NODE
          THEN /\ explorationState' =
                      undiscoverArea(explorationState, graphData, areaId)
               /\ lastOp' = Op("undiscover", areaId, NULL,
                               Delta(explorationState, explorationState'))
               /\ UNCHANGED storage
          ELSE Commit("undiscover", areaId, NULL,
                      undiscoverArea(explorationState, graphData, areaId))
    /\ UNCHANGED <<graphData, explorationMode, viewerVars, syncVars, dashboard, router, serverGame>>

\* graph.js tag handler -> Exploration.toggleTag (saves, does not render)
ToggleTag ==
    /\ \E nodeId \in TaggableZones \cap explorationState.discovered, tagId \in TagIds :
          /\ explorationState' = toggleNodeTag(explorationState, nodeId, tagId)
          /\ storage' = <<saveExplorationToStorage(explorationState')>>
          /\ lastOp' = Op("tag", nodeId, NULL, {})
    /\ UNCHANGED <<graphData, explorationMode, viewerVars, syncVars, dashboard, router, serverGame>>

\* resetExplorationState, then the render of the reset state
ResetExplorationState ==
    /\ Commit("reset", START_NODE, NULL, initExplorationState(graphData))
    /\ UNCHANGED <<graphData, explorationMode, viewerVars, syncVars, dashboard, router, serverGame>>

\* A page reload with the same spoiler log: loadExplorationState(seed) reads
\* back what the last handler saved, then the graph is rendered.
LoadExplorationState ==
    /\ storage # << >>
    /\ Commit("load", START_NODE, NULL, loadExplorationFromStorage(storage[1]))
    /\ UNCHANGED <<graphData, explorationMode, viewerVars, syncVars, dashboard, router, serverGame>>

\* The exploration/spoiler switch: setExplorationMode, then a render.
SetExplorationMode ==
    /\ explorationMode' = ~explorationMode
    /\ explorationState' = renderGraph(explorationState, graphData, explorationMode')
    /\ storage' = IF explorationMode'
                  THEN <<saveExplorationToStorage(explorationState')>> ELSE storage
    /\ lastOp' = Op("mode", START_NODE, NULL, {})
    /\ UNCHANGED <<graphData, viewerVars, syncVars, dashboard, router, serverGame>>

-----------------------------------------------------------------------------
(* Path queries: the highlights of a selected node                         *)

\* Mutant: a one-way link is entered among the outgoing connections of its
\* target too.
Outgoing_OneWayToo(links, nodeId) ==
    LET F[i \in 0..Len(links)] ==
            IF i = 0 THEN << >>
            ELSE F[i - 1]
                 \o (IF links[i].source = nodeId
                     THEN <<[link |-> i, reversed |-> FALSE]>> ELSE << >>)
                 \o (IF links[i].source # links[i].target /\ links[i].target = nodeId
                     THEN <<[link |-> i, reversed |-> TRUE]>> ELSE << >>)
    IN F[Len(links)]

\* buildNodeConnectionsMap, the outgoing array of a node: a link is entered
\* for its source, and once more, reversed, for its target when it is neither
\* one-way nor a self-loop.  A link is named by its index in graphData.links.
Outgoing(links, nodeId) ==
    LET F[i \in 0..Len(links)] ==
            IF i = 0 THEN << >>
            ELSE F[i - 1]
                 \o (IF links[i].source = nodeId
                     THEN <<[link |-> i, reversed |-> FALSE]>> ELSE << >>)
                 \o (IF /\ ~links[i].oneWay
                        /\ links[i].source # links[i].target
                        /\ links[i].target = nodeId
                     THEN <<[link |-> i, reversed |-> TRUE]>> ELSE << >>)
    IN F[Len(links)]

\* buildNodeConnectionsMap, the degree counter of a node.
Degree(links, nodeId) ==
    LET isSelfLoop(i) == links[i].source = links[i].target
        forward(i) == (IF links[i].source = nodeId THEN 1 ELSE 0)
                      + (IF links[i].target = nodeId /\ ~isSelfLoop(i) THEN 1 ELSE 0)
        reverse(i) == IF ~links[i].oneWay /\ ~isSelfLoop(i)
                      THEN (IF links[i].target = nodeId THEN 1 ELSE 0)
                           + (IF links[i].source = nodeId THEN 1 ELSE 0)
                      ELSE 0
        F[i \in 0..Len(links)] ==
            IF i = 0 THEN 0 ELSE F[i - 1] + forward(i) + reverse(i)
    IN F[Len(links)]

buildNodeConnectionsMap(links) ==
    [n \in Zones |-> [outgoing |-> Outgoing(links, n), degree |-> Degree(links, n)]]

\* Mutant: every zone can be traversed.
canTraverse_Always(es, mode, nodeId) == TRUE

\* canTraverse of findPathFromStart and of followLinearPath
canTraverse(es, mode, nodeId) ==
    IF ~mode THEN TRUE ELSE nodeId \in es.discovered

\* neighborId = reversed ? sourceId : targetId
NeighborId(links, conn) ==
    IF conn.reversed THEN links[conn.link].source ELSE links[conn.link].target

NoPath == [nodes |-> {}, links |-> {}]

\* findPathFromStart: the while loop over the queue and, for the entry taken
\* from it, the for loop over the outgoing connections from the k-th on.
RECURSIVE FindInQueue(_, _, _, _, _, _, _), FindInOutgoing(_, _, _, _, _, _, _, _, _)
FindInOutgoing(nodeConnections, links, es, mode, targetNodeId, item, k, visited, queue) ==
    LET conns == nodeConnections[item.currentId].outgoing
    IN IF k > Len(conns)
       THEN FindInQueue(nodeConnections, links, es, mode, targetNodeId, visited, queue)
       ELSE LET neighborId == NeighborId(links, conns[k])
                newPathNodes == Append(item.pathNodes, item.currentId)
                newPathLinks == Append(item.pathLinks, conns[k].link)
            IN IF neighborId \in visited
                  \/ (neighborId # targetNodeId /\ ~canTraverse(es, mode, neighborId))
               THEN FindInOutgoing(nodeConnections, links, es, mode, targetNodeId,
                                   item, k + 1, visited, queue)
               ELSE IF neighborId = targetNodeId
               THEN [nodes |-> SeqToSet(newPathNodes) \cup {neighborId},
                     links |-> SeqToSet(newPathLinks)]
               ELSE FindInOutgoing(nodeConnections, links, es, mode, targetNodeId,
                                   item, k + 1, visited \cup {neighborId},
                                   Append(queue, [currentId |-> neighborId,
                                                  pathNodes |-> newPathNodes,
                                                  pathLinks |-> newPathLinks]))

FindInQueue(nodeConnections, links, es, mode, targetNodeId, visited, queue) ==
    IF queue = << >> THEN NoPath
    ELSE FindInOutgoing(nodeConnections, links, es, mode, targetNodeId,
                        Head(queue), 1, visited, Tail(queue))

findPathFromStart(es, links, mode, targetNodeId) ==
    IF targetNodeId = START_NODE
    THEN [nodes |-> {START_NODE}, links |-> {}]
    ELSE FindInQueue(buildNodeConnectionsMap(links), links, es, mode, targetNodeId,
                     {START_NODE},
                     <<[currentId |-> START_NODE, pathNodes |-> << >>,
                        pathLinks |-> << >>]>>)

\* Mutant: the line is followed beyond every node.
ContinuesBeyond_Hubs(nodeConnections, neighborId) == TRUE

\* neighborConns && neighborConns.degree < 3
ContinuesBeyond(nodeConnections, neighborId) ==
    nodeConnections[neighborId].degree < 3

\* followLinearPath: the while loop over the queue and the for loop over the
\* outgoing connections of the node taken from it.
RECURSIVE FollowQueue(_, _, _, _, _, _, _), FollowOutgoing(_, _, _, _, _, _, _, _, _)
FollowOutgoing(nodeConnections, links, es, mode, currentId, k, visitedNodes, visitedLinks, queue) ==
    LET conns == nodeConnections[currentId].outgoing
    IN IF k > Len(conns)
       THEN FollowQueue(nodeConnections, links, es, mode, visitedNodes, visitedLinks, queue)
       ELSE LET neighborId == NeighborId(links, conns[k])
            IN IF neighborId \in visitedNodes \/ ~canTraverse(es, mode, neighborId)
               THEN FollowOutgoing(nodeConnections, links, es, mode, currentId, k + 1,
                                   visitedNodes, visitedLinks, queue)
               ELSE FollowOutgoing(nodeConnections, links, es, mode, currentId, k + 1,
                                   visitedNodes \cup {neighborId},
                                   visitedLinks \cup {conns[k].link},
                                   IF ContinuesBeyond(nodeConnections, neighborId)
                                   THEN Append(queue, neighborId) ELSE queue)

FollowQueue(nodeConnections, links, es, mode, visitedNodes, visitedLinks, queue) ==
    IF queue = << >> THEN [nodes |-> visitedNodes, links |-> visitedLinks]
    ELSE FollowOutgoing(nodeConnections, links, es, mode, Head(queue), 1,
                        visitedNodes, visitedLinks, Tail(queue))

followLinearPath(es, links, mode, startNodeId) ==
    FollowQueue(buildNodeConnectionsMap(links), links, es, mode,
                {startNodeId}, {}, <<startNodeId>>)

\* graph.js applySelectionHighlights for a node that is not a placeholder:
\* the path from the start when "Path to start" is checked, the line through
\* the node otherwise.  The nodes drawn are the discovered zones in
\* exploration mode and every zone otherwise.
SelectNode ==
    /\ \E nodeId \in IF explorationMode THEN explorationState.discovered ELSE Zones,
          showPathFromStart \in BOOLEAN :
          lastOp' = [op |-> "select", areaId |-> nodeId,
                     showPathFromStart |-> showPathFromStart,
                     result |-> IF showPathFromStart
                                THEN findPathFromStart(explorationState, graphData,
                                                       explorationMode, nodeId)
                                ELSE followLinearPath(explorationState, graphData,
                                                      explorationMode, nodeId)]
    /\ UNCHANGED <<hostVars, viewerVars, syncVars, dashboard, router, serverGame>>

-----------------------------------------------------------------------------
(* Sync reconciler: the snapshot of the host and its application           *)

linkKey(link) == <<link.source, link.target>>

\* Writing the links into an object under `${source}->${target}`: a key keeps
\* the place of its first write and the value of its last.
ObjectEntries(links) ==
    LET firsts == {i \in DOMAIN links :
                      \A j \in DOMAIN links : j < i => linkKey(links[j]) # linkKey(links[i])}
        lastOf(i) == CHOOSE j \in DOMAIN links :
                        /\ linkKey(links[j]) = linkKey(links[i])
                        /\ \A k \in DOMAIN links :
                              linkKey(links[k]) = linkKey(links[i]) => k <= j
        Pick(i) == IF i \in firsts THEN <<links[lastOf(i)]>> ELSE << >>
        F[i \in 0..Len(links)] == IF i = 0 THEN << >> ELSE F[i - 1] \o Pick(i)
    IN F[Len(links)]

\* The links drawn between two real nodes (the .link elements whose ends are
\* not placeholders).
DrawnLinks(es, links, mode) ==
    IF mode
    THEN SelectSeq(links, LAMBDA l :
            /\ l.source \in es.discovered
            /\ l.target \in es.discovered
            /\ (isLinkDiscovered(es, l.source, l.target)
                \/ isLinkDiscovered(es, l.target, l.source)))
    ELSE links

\* getFullSyncState, as far as the viewer's graph and exploration state read
\* it: the node inventory with the discovered flag and the tags, the
\* placeholder entries, the links keyed by their real ends (drawn links
\* first, then the graph links whose key is not yet present), the
\* discoveredLinks array and the mode.
getFullSyncState(es, links, mode) ==
    LET drawn == ObjectEntries(DrawnLinks(es, links, mode))
        drawnKeys == {linkKey(drawn[i]) : i \in DOMAIN drawn}
        original == SelectSeq(links, LAMBDA l : linkKey(l) \notin drawnKeys)
        firstOriginal == {i \in DOMAIN original :
                            \A j \in DOMAIN original :
                                j < i => linkKey(original[j]) # linkKey(original[i])}
        G[i \in 0..Len(original)] ==
            IF i = 0 THEN << >>
            ELSE G[i - 1] \o (IF i \in firstOriginal THEN <<original[i]>> ELSE << >>)
    IN [explorationMode |-> mode,
        nodes |-> [id \in Zones \cup (IF mode THEN PlaceholderIds(es, links) ELSE {}) |->
                     [isPlaceholder |-> id \notin Zones,
                      discovered |-> id \in Zones /\ id \in es.discovered,
                      tags |-> IF id \in Zones /\ mode /\ id \notin es.discovered
                               THEN << >> ELSE getNodeTags(es, id)]],
        placeholders |-> IF mode THEN placeholderNodes(es, links) ELSE {},
        links |-> drawn \o G[Len(original)],
        discoveredLinks |-> SetToSeq(es.discoveredLinks)]

\* Mutant: the viewer takes the discovered flags and the tags of the snapshot
\* and leaves the links to its own render.
SnapshotState_NoLinks(data) ==
    [discovered |-> {z \in DOMAIN data.nodes :
                        ~data.nodes[z].isPlaceholder /\ data.nodes[z].discovered},
     discoveredLinks |-> {},
     tags |-> [z \in {y \in DOMAIN data.nodes :
                        ~data.nodes[y].isPlaceholder /\ Len(data.nodes[y].tags) > 0} |->
                 data.nodes[z].tags]]

\* The exploration state a snapshot carries: what both viewer paths copy.
SnapshotState(data) ==
    [discovered |-> {z \in DOMAIN data.nodes :
                        ~data.nodes[z].isPlaceholder /\ data.nodes[z].discovered},
     discoveredLinks |-> SeqToSet(data.discoveredLinks),
     tags |-> [z \in {y \in DOMAIN data.nodes :
                        ~data.nodes[y].isPlaceholder /\ Len(data.nodes[y].tags) > 0} |->
                 data.nodes[z].tags]]

\* buildGraphFromSessionData: graph and exploration state from the node and
\* link inventory (placeholder entries skipped), then the render.
buildGraphFromSessionData(data) ==
    [graph |-> [loaded |-> TRUE, links |-> data.links],
     mode  |-> data.explorationMode,
     es    |-> renderGraph(SnapshotState(data), data.links, data.explorationMode)]

\* applyVisualState: a mode change re-renders and returns; otherwise the
\* flags, tags and discoveredLinks are patched in place and the graph is
\* rendered when something changed (or a highlighted node is missing).
\* Mutant: a snapshot that keeps the mode always ends in a render.
applyVisualState_AlwaysRenders(graph, mode, es, data, hasMissingNodes) ==
    IF data.explorationMode # mode
    THEN [mode |-> data.explorationMode,
          es   |-> renderGraph(es, graph.links, data.explorationMode),
          rerendering |-> TRUE]
    ELSE [mode |-> mode,
          es   |-> renderGraph(SnapshotState(data), graph.links, mode),
          rerendering |-> TRUE]

applyVisualState(graph, mode, es, data, hasMissingNodes) ==
    IF data.explorationMode # mode
    THEN [mode |-> data.explorationMode,
          es   |-> renderGraph(es, graph.links, data.explorationMode),
          rerendering |-> TRUE]
    ELSE LET patched == SnapshotState(data)
             explorationChanged == patched # es \/ hasMissingNodes
         IN [mode |-> mode,
             es   |-> IF explorationChanged
                      THEN renderGraph(patched, graph.links, mode)
                      ELSE patched,
             rerendering |-> explorationChanged]

\* A state_update: syncState of the host sends the snapshot of the rendered
\* page and ws.onmessage of the viewer hands it to applySessionData.  The
\* relay keeps the order of the messages and the viewer reads nothing of the
\* host but the payload, so the two ends are taken in one step.
StateUpdate ==
    /\ \E data \in {getFullSyncState(explorationState, graphData, explorationMode)} :
          IF ~viewerGraph.loaded
          THEN \E built \in {buildGraphFromSessionData(data)} :
                  /\ viewerGraph' = built.graph
                  /\ viewerMode' = built.mode
                  /\ viewerState' = built.es
                  /\ bootstrapTimer' = <<data>>
                  /\ lastOp' = Op("bootstrap", START_NODE, NULL, {})
          ELSE \E hasMissingNodes \in BOOLEAN :
               \E applied \in {applyVisualState(viewerGraph, viewerMode, viewerState,
                                                data, hasMissingNodes)} :
                  /\ viewerMode' = applied.mode
                  /\ viewerState' = applied.es
                  /\ lastOp' = Op(IF data.explorationMode # viewerMode
                                  THEN "viewer-mode" ELSE "patch", START_NODE, NULL, {})
                  /\ UNCHANGED <<viewerGraph, bootstrapTimer>>
    /\ UNCHANGED <<hostVars, viewerLayout, syncVars, dashboard, router, serverGame>>

\* The timer buildGraphFromSessionData sets: applyVisualState(data) again,
\* with the snapshot the graph was built from.
BootstrapTimer ==
    /\ bootstrapTimer # << >>
    /\ bootstrapTimer' = << >>
    /\ \E hasMissingNodes \in BOOLEAN :
       \E applied \in {applyVisualState(viewerGraph, viewerMode, viewerState,
                                        bootstrapTimer[1], hasMissingNodes)} :
          /\ viewerMode' = applied.mode
          /\ viewerState' = applied.es
    /\ lastOp' = Op("bootstrap-timer", START_NODE, NULL, {})
    /\ UNCHANGED <<hostVars, viewerGraph, viewerLayout, syncVars, dashboard, router, serverGame>>

-----------------------------------------------------------------------------
(* sync.js: the WebSocket session of one page.                             *)
(*                                                                         *)
(* `sync` holds the module variables of sync.js, the sync fields of        *)
(* state.js, and what the browser keeps for the page: its WebSocket objects *)
(* and its pending setTimeout callbacks.  Times are in milliseconds.  A    *)
(* timer holds the time left before it is due; reconnectElapsed holds      *)
(* Date.now() - reconnectStartTime, or NoTime while reconnectStartTime is  *)
(* null.  Handlers take no time; time passes in AdvanceTime only.          *)
(***************************************************************************)
MAX_RECONNECT_DURATION == 300000

RECONNECT_BASE_DELAY == 1000

RECONNECT_MAX_DELAY == 30000

\* setTimeout delays: the throttle of syncState, the sync after
\* session_resumed
SyncThrottleDelay == 50

ResumeSyncDelay == 100

\* WebSocket objects of the page that are not yet closed, at one time
MaxSockets == 2

\* session codes the relay hands out
MaxCodes == 2

\* WebSocket objects the page makes while the connection is unstable
MaxCreated == 3

\* cap of reconnectAttempts
MaxAttempts == 16

\* time followed after a first disconnect while the connection is unstable
MaxElapsed == 1000

Slots == 1..MaxSockets

Codes == 1..MaxCodes

NoTime == -1

NoCode == 0

RECURSIVE Pow2(_)
Pow2(n) == IF n = 0 THEN 1 ELSE 2 * Pow2(n - 1)

\* A WebSocket: state is "connecting", "open" (onopen ran, the relay has
\* not answered), "ready" (the relay accepted), "done" (the relay refused,
\* the socket is still open) or "closing" (closed, onclose has not run yet).
\* settled: the promise of the call that made the socket is settled.
FreeSocket ==
    [state |-> "free", kind |-> "none", code |-> NoCode,
     isReconnect |-> FALSE, settled |-> FALSE]

\* History in a timer: stale (it was pending when disconnectSession ran),
\* n (it is the timer of the n-th consecutive attempt), armedAt (the time
\* since the first disconnect when it was set).
Timer(kind, delay, sessionCode, n, armedAt, stale) ==
    [kind |-> kind, remaining |-> delay, delay |-> delay,
     sessionCode |-> sessionCode, n |-> n, armedAt |-> armedAt, stale |-> stale]

\* setTimeout(() => syncState(), delay).  Two such timers set at the same
\* time for the same delay are kept as one: they run one after the other
\* and the second syncState returns at its guards or at the throttle the
\* first has set.
SetDebounce(timers, delay) ==
    IF \E j \in 1..Len(timers) :
          timers[j] = Timer("debounce", delay, NoCode, 0, 0, FALSE)
    THEN timers
    ELSE Append(timers, Timer("debounce", delay, NoCode, 0, 0, FALSE))

\* History: failures, the reconnection attempts that failed in a row, and
\* created, the WebSocket objects made so far.
InitSync ==
    [ws |-> 0,
     sockets |-> [i \in Slots |-> FreeSocket],
     timers |-> << >>,
     syncConnected |-> FALSE,
     isStreamerHost |-> FALSE,
     currentSessionCode |-> NoCode,
     reconnectAttempts |-> 0,
     reconnectElapsed |-> NoTime,
     isReconnecting |-> FALSE,
     syncThrottle |-> FALSE,
     connectedUI |-> FALSE,
     failures |-> 0,
     created |-> 0]

\* ws.readyState === WebSocket.OPEN
IsOpen(s, i) == i # 0 /\ s.sockets[i].state \in {"open", "ready", "done"}

HasFreeSlot(s) == \E i \in Slots : s.sockets[i].state = "free"

\* The page can make a WebSocket within the bounds.
CanConnect(s) ==
    /\ HasFreeSlot(s)
    /\ relay = "unstable" => s.created < MaxCreated

\* new WebSocket(url), assigned to ws
NewWebSocket(s, kind, code, isReconnect) ==
    LET i == CHOOSE j \in Slots :
                 /\ s.sockets[j].state = "free"
                 /\ \A k \in Slots : s.sockets[k].state = "free" => j <= k
    IN  [s EXCEPT !.ws = i,
                  !.created = @ + 1,
                  !.sockets[i] = [state |-> "connecting", kind |-> kind, code |-> code,
                                  isReconnect |-> isReconnect, settled |-> FALSE]]

\* socket.close(): the socket stops being open at once, its close event
\* comes later
CloseSocket(s, i) ==
    IF i # 0 /\ s.sockets[i].state \in {"connecting", "open", "ready", "done"}
    THEN [s EXCEPT !.sockets[i].state = "closing"]
    ELSE s

setSyncState(s, connected, isHost) ==
    [s EXCEPT !.syncConnected = connected, !.isStreamerHost = isHost]

MarkStale(timers) == [j \in 1..Len(timers) |-> [timers[j] EXCEPT !.stale = TRUE]]

disconnectSession(s) ==
    LET reset == [s EXCEPT !.isReconnecting = FALSE,
                           !.reconnectElapsed = NoTime,
                           !.reconnectAttempts = 0,
                           !.currentSessionCode = NoCode,
                           !.failures = 0,
                           !.timers = MarkStale(@)]
        closed == [CloseSocket(reset, reset.ws) EXCEPT !.ws = 0]
    IN  [setSyncState(closed, FALSE, FALSE) EXCEPT !.connectedUI = FALSE]

ReconnectDelay(attempts) ==
    Min(RECONNECT_BASE_DELAY * Pow2(attempts - 1), RECONNECT_MAX_DELAY)

MaxDurationReached_Never(elapsed) == FALSE

MaxDurationReached(elapsed) == elapsed >= MAX_RECONNECT_DURATION

handleDisconnect(s) ==
    IF s.isReconnecting THEN s
    ELSE IF ~s.syncConnected \/ s.currentSessionCode = NoCode THEN s
    ELSE LET elapsed == IF s.reconnectElapsed = NoTime THEN 0 ELSE s.reconnectElapsed
         IN  IF MaxDurationReached(elapsed)
             THEN disconnectSession([s EXCEPT !.reconnectElapsed = NoTime,
                                              !.reconnectAttempts = 0])
             ELSE [s EXCEPT !.reconnectElapsed = elapsed,
                            !.reconnectAttempts = @ + 1,
                            !.isReconnecting = TRUE,
                            !.timers = Append(@, Timer("reconnect",
                                                 ReconnectDelay(s.reconnectAttempts + 1),
                                                 s.currentSessionCode, s.failures + 1,
                                                 elapsed, FALSE))]

\* The reconnection callback awaits the promise of resumeHostSession and of
\* joinSession(code, true); nothing awaits the promise of another call.
Awaited(sock) == sock.kind = "resume" \/ sock.isReconnect

\* resolve(): the rest of the try block of the reconnection callback
resolve(s, i) ==
    IF s.sockets[i].settled THEN s
    ELSE LET t == [s EXCEPT !.sockets[i].settled = TRUE]
         IN  IF Awaited(s.sockets[i])
             THEN [t EXCEPT !.reconnectElapsed = NoTime, !.reconnectAttempts = 0,
                            !.isReconnecting = FALSE, !.failures = 0]
             ELSE t

\* reject(): the catch block of the reconnection callback
reject(s, i) ==
    IF s.sockets[i].settled THEN s
    ELSE LET t == [s EXCEPT !.sockets[i].settled = TRUE]
         IN  IF Awaited(s.sockets[i])
             THEN handleDisconnect([t EXCEPT !.isReconnecting = FALSE,
                                             !.failures = @ + 1])
             ELSE t

\* syncState(); stale is history, the staleness of the timer that called
\* History: the throttle timer counts in n, up to MaxAbsorbed, the calls of
\* syncState that returned because it was pending.
Absorb(s) ==
    [s EXCEPT !.timers =
        [j \in 1..Len(@) |->
            IF @[j].kind = "throttle"
            THEN [@[j] EXCEPT !.n = Min(@ + 1, MaxAbsorbed)]
            ELSE @[j]]]

\* Mutant: a call arms a timer also while one is pending.
syncState_Unthrottled(s, stale) ==
    IF ~IsOpen(s, s.ws) \/ ~s.isStreamerHost THEN s
    ELSE [s EXCEPT !.syncThrottle = TRUE,
                   !.timers = Append(@, Timer("throttle", SyncThrottleDelay,
                                              NoCode, 0, 0, stale))]

syncState(s, stale) ==
    IF ~IsOpen(s, s.ws) \/ ~s.isStreamerHost THEN s
    ELSE IF s.syncThrottle THEN Absorb(s)
    ELSE [s EXCEPT !.syncThrottle = TRUE,
                   !.timers = Append(@, Timer("throttle", SyncThrottleDelay,
                                              NoCode, 0, 0, stale))]

\* ws.onopen of createSession, resumeHostSession and joinSession
onopen(s, i) ==
    LET t == [s EXCEPT !.sockets[i].state = "open"]
    IN  IF s.sockets[i].kind = "resume" THEN t
        ELSE [t EXCEPT !.reconnectAttempts = 0]

\* ws.onmessage of createSession: session_created with the code of the relay
createSession_onmessage(s, i, code) ==
    LET t == [setSyncState(s, TRUE, TRUE) EXCEPT !.sockets[i].state = "ready",
                                                 !.sockets[i].code = code,
                                                 !.currentSessionCode = code,
                                                 !.connectedUI = TRUE]
    IN  resolve(t, i)

\* The error branch of both onmessage handlers: ws.close() closes the
\* socket ws names now, and throws before reject() when ws is null.
RelayRefused(s, i) ==
    LET t == [s EXCEPT !.sockets[i].state = "done"]
    IN  IF t.ws = 0 THEN t ELSE reject(CloseSocket(t, t.ws), i)

\* ws.onmessage of resumeHostSession
resumeHostSession_onmessage(s, i, type) ==
    IF type = "error" THEN RelayRefused(s, i)
    ELSE LET t == [setSyncState(s, TRUE, TRUE) EXCEPT
                       !.sockets[i].state = "ready",
                       !.reconnectAttempts = 0,
                       !.currentSessionCode = s.sockets[i].code,
                       !.connectedUI = TRUE,
                       !.timers = SetDebounce(@, ResumeSyncDelay)]
         IN  resolve(t, i)

\* ws.onmessage of joinSession.  The relay holds no snapshot when it sends
\* connected (data.state is empty); state_update is StateUpdate above.
joinSession_onmessage(s, i, type) ==
    CASE type = "error" -> RelayRefused(s, i)
      [] type = "connected" ->
             resolve([setSyncState(s, TRUE, FALSE) EXCEPT
                          !.sockets[i].state = "ready",
                          !.currentSessionCode = s.sockets[i].code,
                          !.connectedUI = TRUE], i)
      [] type = "session_expired" -> disconnectSession(s)

\* The messages the relay sends on a socket of each kind: its answer to
\* the connection, and later the end of the session a viewer follows.
MessageTypes(sock) ==
    CASE sock.state = "open" /\ sock.kind = "create" -> {"session_created"}
      [] sock.state = "open" /\ sock.kind = "resume" -> {"session_resumed", "error"}
      [] sock.state = "open" /\ sock.kind = "join" -> {"connected", "error"}
      [] sock.state = "ready" /\ sock.kind = "join" -> {"session_expired"}
      [] OTHER -> {}

\* Codes this page holds: the relay creates no session under one of them.
CodesInUse(s) ==
    {s.currentSessionCode}
        \cup {s.sockets[i].code : i \in Slots}
        \cup {s.timers[j].sessionCode : j \in 1..Len(s.timers)}

onmessage(s, i, type, code) ==
    CASE s.sockets[i].kind = "create" -> createSession_onmessage(s, i, code)
      [] s.sockets[i].kind = "resume" -> resumeHostSession_onmessage(s, i, type)
      [] s.sockets[i].kind = "join" -> joinSession_onmessage(s, i, type)

\* ws.onerror: the connection failed; the close event follows
onerror(s, i) == reject([s EXCEPT !.sockets[i].state = "closing"], i)

\* ws.onclose; the socket is gone afterwards
onclose(s, i) ==
    LET t == [s EXCEPT !.sockets[i] = FreeSocket]
    IN  IF t.syncConnected THEN handleDisconnect(t) ELSE t

\* The callback of the timer handleDisconnect sets
ReconnectCallback(s, timer) ==
    IF ~s.syncConnected \/ s.currentSessionCode # timer.sessionCode
    THEN [s EXCEPT !.isReconnecting = FALSE]
    ELSE IF s.isStreamerHost
         THEN NewWebSocket(s, "resume", timer.sessionCode, FALSE)
         ELSE NewWebSocket(s, "join", timer.sessionCode, TRUE)

\* The timers that are due run in the order they were set.
DueTimer(s) ==
    CHOOSE j \in 1..Len(s.timers) :
        /\ s.timers[j].remaining = 0
        /\ \A k \in 1..(j - 1) : s.timers[k].remaining # 0

HasDueTimer(s, kind) ==
    /\ \E j \in 1..Len(s.timers) : s.timers[j].remaining = 0
    /\ s.timers[DueTimer(s)].kind = kind

RemoveTimer(s, j) ==
    [s EXCEPT !.timers = SubSeq(@, 1, j - 1) \o SubSeq(@, j + 1, Len(@))]

\* History of the sync layer: the handler that ran last; sent (it sent a
\* state_update), stale (the timer that ran was pending when
\* disconnectSession ran), asViewer (it sent on the socket of joinSession,
\* the page being connected as a viewer), gaveUp (handleDisconnect ended
\* the session).
SyncOp(op, before, after, sent, stale) ==
    [op |-> op, sent |-> sent, stale |-> stale,
     asViewer |-> /\ sent /\ before.syncConnected /\ ~before.isStreamerHost
                  /\ before.sockets[before.ws].kind = "join",
     gaveUp |-> /\ before.syncConnected /\ ~after.syncConnected
                /\ before.reconnectElapsed # NoTime
                /\ MaxDurationReached(before.reconnectElapsed)]

\* History: what the callback of a throttle timer sends, the result of
\* getFullSyncState() at that moment, and the calls the timer absorbed.
Emission(sent, absorbed) ==
    [state |-> IF sent
               THEN <<getFullSyncState(explorationState, graphData, explorationMode)>>
               ELSE << >>,
     absorbed |-> absorbed]

SyncStep(after) ==
    /\ sync' = after
    /\ lastOp' = SyncOp("handler", sync, after, FALSE, FALSE)
    /\ UNCHANGED <<hostVars, viewerVars, relay, dashboard, router, serverGame>>

\* start-session-btn -> createSession.  The button is in the panel
\* showConnectedUI hides.  Where the relay is "up" and then "down", the
\* user makes one session and leaves the page alone.
CreateSession ==
    /\ relay = "unstable" \/ sync = InitSync
    /\ ~sync.connectedUI
    /\ CanConnect(sync)
    /\ SyncStep(NewWebSocket(sync, "create", NoCode, FALSE))

\* joinSession(code), exported: setupViewerMode calls it with the code of
\* the URL, and its branches for a page that was not opened in viewer mode
\* (Toast.error, updateSyncStatus) serve a page that joins by code.
JoinSession ==
    /\ relay = "unstable" \/ sync = InitSync
    /\ ~sync.connectedUI
    /\ CanConnect(sync)
    /\ \E code \in Codes :
          SyncStep(NewWebSocket(sync, "join", code, FALSE))

\* end-session-btn -> disconnectSession.  The button is in the panel
\* showConnectedUI shows.
DisconnectSession ==
    /\ relay = "unstable"
    /\ sync.connectedUI
    /\ SyncStep(disconnectSession(sync))

SocketOpen ==
    /\ relay # "down"
    /\ \E i \in Slots :
          /\ sync.sockets[i].state = "connecting"
          /\ SyncStep(onopen(sync, i))

SocketMessage ==
    /\ relay # "down"
    /\ \E i \in Slots :
       \E type \in MessageTypes(sync.sockets[i]) :
       \E code \in IF type = "session_created" THEN Codes \ CodesInUse(sync)
                   ELSE {NoCode} :
          SyncStep(onmessage(sync, i, type, code))

\* A connection fails while the relay is down or the network unstable.
SocketError ==
    /\ relay # "up"
    /\ \E i \in Slots :
          /\ sync.sockets[i].state = "connecting"
          /\ SyncStep(onerror(sync, i))

\* The close event: after close(), or when the relay or the network drops
\* an open connection.
SocketClose ==
    \E i \in Slots :
       /\ \/ sync.sockets[i].state = "closing"
          \/ relay # "up" /\ sync.sockets[i].state \in {"open", "ready", "done"}
       /\ SyncStep(onclose(sync, i))

\* The State subscriptions of the host that call syncState at once:
\* nodePositionsSaved, nodeDiscovered, nodeUndiscovered, nodeTagsChanged,
\* graphRenderCompleted.
HostEvent ==
    /\ sync.syncConnected /\ sync.isStreamerHost
    /\ SyncStep(syncState(sync, FALSE))

\* setTimeout(() => syncState(), delay) of resumeHostSession
DebounceTimer ==
    /\ HasDueTimer(sync, "debounce")
    /\ \E j \in {DueTimer(sync)} :
          SyncStep(syncState(RemoveTimer(sync, j), sync.timers[j].stale))

\* The callback of syncState: it sends on ws, whatever ws is by now, and
\* throws when ws is null or not open.
ThrottleTimer ==
    /\ HasDueTimer(sync, "throttle")
    /\ \E j \in {DueTimer(sync)} :
          /\ sync' = [RemoveTimer(sync, j) EXCEPT !.syncThrottle = FALSE]
          /\ lastOp' = SyncOp("throttle", sync, sync', IsOpen(sync, sync.ws),
                              sync.timers[j].stale)
                         @@ Emission(IsOpen(sync, sync.ws), sync.timers[j].n)
    /\ UNCHANGED <<hostVars, viewerVars, relay, dashboard, router, serverGame>>

ReconnectTimer ==
    /\ HasDueTimer(sync, "reconnect")
    /\ sync.reconnectAttempts < MaxAttempts
    /\ \E j \in {DueTimer(sync)} :
          /\ ~(~sync.syncConnected \/ sync.currentSessionCode # sync.timers[j].sessionCode)
                => CanConnect(sync)
          /\ sync' = ReconnectCallback(RemoveTimer(sync, j), sync.timers[j])
          /\ lastOp' = SyncOp("reconnect", sync, sync', FALSE, sync.timers[j].stale)
    /\ UNCHANGED <<hostVars, viewerVars, relay, dashboard, router, serverGame>>

\* Time passes until the next timer is due.
AdvanceTime ==
    /\ sync.timers # << >>
    /\ \A j \in 1..Len(sync.timers) : sync.timers[j].remaining > 0
    /\ \E d \in {sync.timers[j].remaining : j \in 1..Len(sync.timers)} :
          /\ \A j \in 1..Len(sync.timers) : d <= sync.timers[j].remaining
          /\ relay = "unstable" /\ sync.reconnectElapsed # NoTime
                => sync.reconnectElapsed + d <= MaxElapsed
          /\ SyncStep(
                 [sync EXCEPT
                     !.timers = [j \in 1..Len(@) |-> [@[j] EXCEPT !.remaining = @ - d]],
                     !.reconnectElapsed =
                         IF @ = NoTime THEN @ ELSE Min(@ + d, MAX_RECONNECT_DURATION)])

\* The subscriptions of sync.js to the events of the state: each of the
\* events of a handler calls syncState when the page hosts a session.
RECURSIVE syncStateCalls(_, _)
syncStateCalls(s, calls) ==
    IF calls = 0 THEN s ELSE syncStateCalls(syncState(s, FALSE), calls - 1)

Subscriptions(s, events) ==
    IF s.syncConnected /\ s.isStreamerHost THEN syncStateCalls(s, events) ELSE s

\* The discover handler on a page in a session: nodeDiscovered for every
\* zone added, then graphRenderCompleted.
DiscoverAreaInSession ==
    /\ explorationMode
    /\ \E c \in PlaceholderClicks(explorationState, graphData) \cup DirectCalls :
          Commit("discover", c.areaId, c.fromNodeId,
                 discoverWithPreexisting(explorationState, graphData,
                                         c.areaId, c.fromNodeId, c.viaLink))
    /\ sync' = Subscriptions(sync,
                   Cardinality(explorationState'.discovered
                                   \ explorationState.discovered) + 1)
    /\ UNCHANGED <<graphData, explorationMode, viewerVars, relay, dashboard, router, serverGame>>

\* The tag handler on a page in a session: nodeTagsChanged.
ToggleTagInSession ==
    /\ \E nodeId \in TaggableZones \cap explorationState.discovered, tagId \in TagIds :
          /\ explorationState' = toggleNodeTag(explorationState, nodeId, tagId)
          /\ storage' = <<saveExplorationToStorage(explorationState')>>
          /\ lastOp' = Op("tag", nodeId, NULL, {})
    /\ sync' = Subscriptions(sync, 1)
    /\ UNCHANGED <<graphData, explorationMode, viewerVars, relay, dashboard, router, serverGame>>

\* The relay goes down and stays down.
RelayDown ==
    /\ relay = "up"
    /\ relay' = "down"
    /\ lastOp' = SyncOp("handler", sync, sync, FALSE, FALSE)
    /\ UNCHANGED <<hostVars, viewerVars, sync, dashboard, router, serverGame>>

-----------------------------------------------------------------------------
(* Viewer: positions and viewport of a snapshot                            *)

\* A JavaScript value in a numeric field: a finite number v, NaN, Infinity,
\* or undefined (the field is absent).
Num(v) == [kind |-> "finite", v |-> v]

NaN == [kind |-> "NaN", v |-> 0]

Infinity == [kind |-> "Infinity", v |-> 0]

undefined == [kind |-> "undefined", v |-> 0]

isNaN(n) == n.kind \in {"NaN", "undefined"}

isFinite(n) == n.kind = "finite"

IsNumber(n) == n.kind # "undefined"

Abs(i) == IF i < 0 THEN -i ELSE i

\* Math.abs(a - b) > 1 for two numbers, false when the difference is NaN
Differ(a, b) == isFinite(a) /\ isFinite(b) /\ Abs(a.v - b.v) > 1

Pos(x, y) == [x |-> x, y |-> y]

\* The zones whose positions the snapshots below carry.
PositionedZones == {START_NODE, "Roundtable Hold"}

SamplePositions ==
    {Pos(Num(20), Num(10)), Pos(NaN, Num(10)), Pos(Num(20), Infinity)}

Viewport(x, y, k) == [x |-> x, y |-> y, k |-> k]

SampleViewports ==
    {Viewport(Num(20), Num(10), Num(2)), Viewport(NaN, Num(10), Num(1))}

\* state.nodePositions, the x and y of the simulation's nodes, the zoom
\* transform, and lastSyncedViewport of sync.js.
InitLayout ==
    [nodePositions |-> << >>,
     sim |-> [z \in PositionedZones |-> Pos(Num(10), Num(10))],
     transform |-> Viewport(Num(0), Num(0), Num(1)),
     lastSyncedViewport |-> << >>]

saveNodePosition(layout, nodeId, x, y) ==
    IF IsNumber(x) /\ IsNumber(y) /\ ~isNaN(x) /\ ~isNaN(y)
       /\ isFinite(x) /\ isFinite(y)
    THEN [layout EXCEPT !.nodePositions = PutKey(@, nodeId, Pos(x, y))]
    ELSE layout

ValidPosition(p) ==
    /\ p.x.kind # "undefined" /\ p.y.kind # "undefined"
    /\ ~isNaN(p.x) /\ ~isNaN(p.y) /\ isFinite(p.x) /\ isFinite(p.y)

\* applyVisualState, first pass, for one node of the snapshot
FirstPass(layout, id, p) ==
    IF ValidPosition(p) THEN saveNodePosition(layout, id, p.x, p.y) ELSE layout

\* Mutant: the simulation's node takes the position whatever its numbers.
SecondPass_Unchecked(layout, id, p) ==
    IF id \in DOMAIN layout.sim /\ layout.sim[id] # p
    THEN [layout EXCEPT !.sim[id] = p]
    ELSE layout

\* applyVisualState, second pass, for one node: the simulation's node moves
\* when the position is valid and more than 1 away.
SecondPass(layout, id, p) ==
    IF id \in DOMAIN layout.sim /\ ValidPosition(p)
       /\ (Differ(layout.sim[id].x, p.x) \/ Differ(layout.sim[id].y, p.y))
    THEN [layout EXCEPT !.sim[id] = p]
    ELSE layout

RECURSIVE ApplyPositions(_, _, _)
ApplyPositions(layout, positions, ids) ==
    IF ids = << >> THEN layout
    ELSE ApplyPositions(SecondPass(FirstPass(layout, Head(ids), positions[Head(ids)]),
                                   Head(ids), positions[Head(ids)]),
                        positions, Tail(ids))

\* The two passes of applyVisualState over Object.entries(data.nodes).  They
\* are not reached when the snapshot changes the mode.
applyNodePositions(layout, mode, data, positions) ==
    IF data.explorationMode # mode THEN layout
    ELSE ApplyPositions(layout, positions, SetToSeq(DOMAIN positions))

\* applyViewport, on a page whose svg exists and whose size is the host's.
applyViewport(layout, vp) ==
    IF vp.x.kind = "undefined" THEN layout
    ELSE IF /\ layout.lastSyncedViewport # << >>
            /\ ~Differ(vp.x, layout.lastSyncedViewport[1].x)
            /\ ~Differ(vp.y, layout.lastSyncedViewport[1].y)
            /\ vp.k = layout.lastSyncedViewport[1].k
            /\ isFinite(vp.x) /\ isFinite(vp.y) /\ isFinite(vp.k)
            /\ isFinite(layout.lastSyncedViewport[1].x)
            /\ isFinite(layout.lastSyncedViewport[1].y)
    THEN layout
    ELSE LET seen == [layout EXCEPT !.lastSyncedViewport = <<vp>>]
         IN IF \/ ~IsNumber(vp.x) \/ ~IsNumber(vp.y) \/ ~IsNumber(vp.k)
               \/ isNaN(vp.x) \/ isNaN(vp.y) \/ isNaN(vp.k)
               \/ ~isFinite(vp.x) \/ ~isFinite(vp.y) \/ ~isFinite(vp.k)
               \/ vp.k.v <= 0
            THEN seen
            ELSE [seen EXCEPT !.transform = vp]

\* State.saveAllNodePositions: the positions of the simulation's nodes
RECURSIVE SaveAll(_, _)
SaveAll(layout, ids) ==
    IF ids = << >> THEN layout
    ELSE SaveAll(saveNodePosition(layout, Head(ids), layout.sim[Head(ids)].x,
                                  layout.sim[Head(ids)].y),
                 Tail(ids))

saveAllNodePositions(layout) == SaveAll(layout, SetToSeq(DOMAIN layout.sim))

\* applySessionData on a page whose graph is built, for what it does to the
\* positions and the viewport.  On a mode change only the viewport is applied
\* (by the 200 ms timer); when the exploration state changed, or a
\* highlighted node is missing, the positions are applied and the viewport
\* is not.
applySessionLayout(layout, mode, es, data, positions, vp, hasMissingNodes) ==
    IF data.explorationMode # mode
    THEN applyViewport(saveAllNodePositions(layout), vp)
    ELSE IF SnapshotState(data) # es \/ hasMissingNodes
    THEN saveAllNodePositions(applyNodePositions(layout, mode, data, positions))
    ELSE applyViewport(applyNodePositions(layout, mode, data, positions), vp)

\* The ids of the .node elements of a rendered page: in exploration mode the
\* discovered zones and the placeholders, otherwise every zone.
RenderedNodes(es, links, mode) ==
    IF mode THEN es.discovered \cup PlaceholderIds(es, links) ELSE Zones

\* The nodes of a snapshot with a highlight flag, or selected: none, or one
\* node of the host's page, a placeholder or the zone Limgrave.
FlaggedNodes(es, links, mode) ==
    {{}} \cup {{id} : id \in RenderedNodes(es, links, mode)
                              \cap (PlaceholderIds(es, links) \cup {"Limgrave"})}

\* applyVisualState, second pass: a highlighted or selected node of the
\* snapshot that the simulation of the viewer does not hold.
hasMissingNodes(simNodes, flagged) == flagged \ simNodes # {}

\* applyVisualClasses: the nodes of the page that carry the highlight class
\* when applySessionData returns.  After a render the classes wait for the
\* timer of applyVisualState.
applyVisualClasses(simNodes, flagged, rerendering) ==
    IF rerendering THEN {} ELSE flagged \cap simNodes

\* History: whether the snapshot just applied changed the mode, whether it
\* carried both a valid position and a position or a viewport that is not,
\* the nodes it flagged, whether the page was rendered again, and the nodes
\* that carry the highlight class.
LayoutOp(data, mode, positions, vp, flagged, rerendering, classes) ==
    [op |-> "session-data", modeChanged |-> data.explorationMode # mode,
     changed |-> SnapshotState(data) # viewerState,
     mixed |-> /\ \E z \in DOMAIN positions : ValidPosition(positions[z])
               /\ \E z \in DOMAIN positions : ~ValidPosition(positions[z])
               /\ (~isFinite(vp.x) \/ ~isFinite(vp.k)),
     flagged |-> flagged, rerendering |-> rerendering, classes |-> classes]

\* A state_update that carries positions and a viewport reaches a viewer
\* whose graph is built.
SessionData ==
    /\ viewerGraph.loaded
    /\ \E data \in {getFullSyncState(explorationState, graphData, explorationMode)},
          flagged \in FlaggedNodes(explorationState, graphData, explorationMode) :
       \E simNodes \in {RenderedNodes(viewerState, viewerGraph.links, viewerMode)} :
       \E applied \in {applyVisualState(viewerGraph, viewerMode, viewerState, data,
                                        hasMissingNodes(simNodes, flagged))} :
          /\ viewerMode' = applied.mode
          /\ viewerState' = applied.es
          /\ \E positions \in [PositionedZones -> SamplePositions],
                vp \in SampleViewports :
                /\ viewerLayout' =
                       applySessionLayout(viewerLayout, viewerMode, viewerState, data,
                                          positions, vp,
                                          hasMissingNodes(simNodes, flagged))
                /\ lastOp' = LayoutOp(data, viewerMode, positions, vp, flagged,
                                      applied.rerendering,
                                      applyVisualClasses(simNodes, flagged,
                                                         applied.rerendering))
    /\ UNCHANGED <<hostVars, viewerGraph, bootstrapTimer, syncVars, dashboard, router, serverGame>>

-----------------------------------------------------------------------------
(* Dashboard: the spoiler log parser and the new-game form                 *)

\* One line of a spoiler log text, by what the parser's patterns make of it:
\*   "skip"        blank, or a metadata line of skipPatterns
\*   "area"        not indented, with a name before the first parenthesis
\*   "connection"  indented, "Random:" or "Preexisting:" with one " --> "
\*   "other"       indented, anything else
\*   "optional"    the line "Optional areas:"
\* seed is the digits after "seed:" in the line, "" when it has none; conn
\* is the index in ConnectionLines of what parseConnectionLine returns.
TextLine(kind, seed, name, conn) ==
    [kind |-> kind, seed |-> seed, name |-> name, conn |-> conn]

SampleLines ==
    {TextLine("skip", "1234", "", 0),
     TextLine("skip", "", "", 0),
     TextLine("area", "", "Limgrave", 0),
     TextLine("connection", "", "", 2),
     TextLine("other", "", "", 0),
     TextLine("optional", "", "", 0)}

\* text.split('\n') has at least one line.
RECURSIVE TextsOfLength(_)
TextsOfLength(n) ==
    IF n = 1 THEN {<<l>> : l \in SampleLines}
    ELSE {Append(t, l) : t \in TextsOfLength(n - 1), l \in SampleLines}

Texts == UNION {TextsOfLength(n) : n \in 1..MaxLines}

parseAreaLine(line) == IF line.kind = "area" THEN line.name ELSE NULL

parseConnectionLine(line) ==
    IF line.kind = "connection" THEN <<ConnectionLines[line.conn]>> ELSE << >>

\* areas.set(name, ...) when the map does not have the name yet
AddArea(areas, name) ==
    IF \E i \in DOMAIN areas : areas[i] = name THEN areas ELSE Append(areas, name)

\* The body of the loop of parse for one line.
ParseLine(line, acc) ==
    IF parseAreaLine(line) # NULL
    THEN [acc EXCEPT !.areas = AddArea(@, parseAreaLine(line))]
    ELSE IF line.kind \in {"connection", "other"} /\ parseConnectionLine(line) # << >>
    THEN LET conn == parseConnectionLine(line)[1]
         IN [areas |-> AddArea(AddArea(acc.areas, conn.source), conn.target),
             connections |-> Append(acc.connections, conn)]
    ELSE acc

\* The loop of parse, which the line "Optional areas:" ends.
RECURSIVE ParseLines(_, _, _)
ParseLines(lines, i, acc) ==
    IF i > Len(lines) \/ lines[i].kind = "optional" THEN acc
    ELSE ParseLines(lines, i + 1, ParseLine(lines[i], acc))

\* SpoilerLogParser.parse: it returns on every text.
parse(text) ==
    LET acc == ParseLines(text, 1, [areas |-> << >>, connections |-> << >>])
    IN [nodes |-> acc.areas,
        links |-> acc.connections,
        metadata |-> [seed |-> text[1].seed]]

InitDashboard ==
    [file |-> << >>, parsedData |-> << >>, error |-> FALSE, formShown |-> FALSE]

\* handleFileSelect: the text is refused only when its first line has no seed.
handleFileSelect(d, text) ==
    LET result == parse(text)
    IN IF result.metadata.seed = ""
       THEN [d EXCEPT !.file = text, !.error = TRUE]
       ELSE [file |-> text,
             parsedData |-> <<[seed |-> result.metadata.seed,
                               graphData |-> [nodes |-> result.nodes,
                                              links |-> result.links]]>>,
             error |-> FALSE,
             formShown |-> TRUE]

resetNewGameForm(d) == InitDashboard

\* The drop and change handlers of the drop zone.
HandleFileSelect ==
    /\ \E text \in Texts : dashboard' = handleFileSelect(dashboard, text)
    /\ UNCHANGED <<hostVars, viewerVars, syncVars, router, serverGame, lastOp>>

\* The cancel button.
ResetNewGameForm ==
    /\ dashboard # InitDashboard
    /\ dashboard' = resetNewGameForm(dashboard)
    /\ UNCHANGED <<hostVars, viewerVars, syncVars, router, serverGame, lastOp>>

-----------------------------------------------------------------------------
(* router.js: the routes of the single-page application                    *)

\* How many navigations a page sees.
MaxNavigations == 3

\* The routes by what their handlers return: the handlers of /play/:gameId
\* and /watch/:username/:gameId return a cleanup function, the handler of
\* /watch/:username returns nothing.  Each of them awaits the server.
RouteKinds == {"play", "list"}

\* currentCleanup is 0 for null, or the navigation whose handler returned the
\* function.  A call of handleRoute is "idle" (not begun), "handler" (its
\* route handler is awaiting) or "done".  History: the route of each call,
\* and the starts and returns of the handlers and the runs of the cleanups,
\* in their order.
InitRouter ==
    [currentCleanup |-> 0,
     pc |-> [n \in 1..MaxNavigations |-> "idle"],
     route |-> [n \in 1..MaxNavigations |-> "none"],
     events |-> << >>]

\* handleRoute up to the await of its route handler: the cleanup of the
\* previous route, if currentCleanup holds one, then the handler of the
\* matching route.  The cleanups of main.js are synchronous, so that no other
\* call of handleRoute begins between the cleanup and currentCleanup = null.
handleRoute(r, n, kind) ==
    [r EXCEPT !.currentCleanup = 0,
              !.pc[n] = "handler",
              !.route[n] = kind,
              !.events = (IF r.currentCleanup # 0
                          THEN Append(@, <<"cleanup", r.currentCleanup>>) ELSE @)
                         \o <<(<<"start", n>>)>>]

\* handleRoute after the await of its route handler:
\* if (typeof cleanup === 'function') currentCleanup = cleanup
handlerReturned(r, n) ==
    [r EXCEPT !.currentCleanup = IF r.route[n] = "play" THEN n ELSE @,
              !.pc[n] = "done",
              !.events = Append(@, <<"done", n>>)]

RouterOp(op, n) == [op |-> op, navigation |-> n]

\* navigate(path), a popstate event or a click on a link: handleRoute begins.
Navigate ==
    /\ \E n \in 1..MaxNavigations, kind \in RouteKinds :
          /\ router.pc[n] = "idle"
          /\ \A m \in 1..(n - 1) : router.pc[m] # "idle"
          /\ router' = handleRoute(router, n, kind)
          /\ lastOp' = RouterOp("navigate", n)
    /\ UNCHANGED <<hostVars, viewerVars, syncVars, dashboard, serverGame>>

\* The promise of a route handler resolves and handleRoute goes on.
HandlerReturns ==
    /\ \E n \in 1..MaxNavigations :
          /\ router.pc[n] = "handler"
          /\ router' = handlerReturned(router, n)
          /\ lastOp' = RouterOp("handler-returns", n)
    /\ UNCHANGED <<hostVars, viewerVars, syncVars, dashboard, serverGame>>

-----------------------------------------------------------------------------
(* docs/SPEC_BACKEND.md: the discoveries of a game on the server           *)

\* How many zone pairs a game holds.
MaxZonePairs == 2

\* How many discovered links a game holds before the mod stops.
MaxDiscoveredLinks == 2

\* The zones of the games of the server.
ServerZones == {START_NODE, "Limgrave", "Roundtable Hold"}

\* The games the mod creates (POST /api/games): zone pairs, random and
\* preexisting, and no discovered link yet.
CreatedGames ==
    {[created |-> TRUE, zone_pairs |-> zp, discovered_links |-> << >>] :
        zp \in UNION {[1..n -> {p \in [source : ServerZones, destination : ServerZones,
                                        type : {"random", "preexisting"}] :
                                    p.source # p.destination}] :
                      n \in 0..MaxZonePairs}}

\* The row before a game is created.
InitGame == [created |-> FALSE, zone_pairs |-> << >>, discovered_links |-> << >>]

\* get_discovered_nodes: the start zone and both ends of every discovered
\* link.
get_discovered_nodes(discovered_links) ==
    {START_NODE} \cup {discovered_links[i].source : i \in DOMAIN discovered_links}
                 \cup {discovered_links[i].target : i \in DOMAIN discovered_links}

\* The while loop of propagate_discovery.  adj maps a zone to the list of
\* its neighbours by preexisting links; a neighbour of a newly discovered
\* zone is queued `if next_dst in discovered_nodes`.
RECURSIVE propagate_bfs(_, _, _, _, _, _)
propagate_bfs(adj, queue, visited, discovered_links, discovered_nodes, newly_discovered) ==
    IF queue = << >>
    THEN [discovered_links |-> discovered_links, newly_discovered |-> newly_discovered]
    ELSE LET src == Head(queue)[1]
             dst == Head(queue)[2]
             link == [source |-> src, target |-> dst]
             link_exists == \E i \in DOMAIN discovered_links : discovered_links[i] = link
             nodes == discovered_nodes \cup {dst}
             next == IF dst \in discovered_nodes
                     THEN << >>
                     ELSE [i \in DOMAIN SelectSeq(adj[dst], LAMBDA n : n \in nodes) |->
                              <<dst, SelectSeq(adj[dst], LAMBDA n : n \in nodes)[i]>>]
         IN  IF Head(queue) \in visited
             THEN propagate_bfs(adj, Tail(queue), visited, discovered_links,
                                discovered_nodes, newly_discovered)
             ELSE propagate_bfs(adj, Tail(queue) \o next, visited \cup {Head(queue)},
                                IF link_exists THEN discovered_links
                                               ELSE Append(discovered_links, link),
                                nodes,
                                IF link_exists THEN newly_discovered
                                               ELSE Append(newly_discovered, link))

\* propagate_discovery(db, game_id, source, target): the game after the call
\* and the returned list.  The bodies of build_preexisting_adjacency and
\* link_exists are not part of the document: the adjacency is read as the
\* destinations of the preexisting zone pairs of each source, in the order of
\* zone_pairs, and a link exists when the list holds one with that source
\* and that target.  The timestamps and discovered_by are not modelled.
propagate_discovery(g, source, target) ==
    LET pre(z) == SelectSeq(g.zone_pairs,
                            LAMBDA p : p.type = "preexisting" /\ p.source = z)
        preexisting_adj == [z \in ServerZones |->
                               [i \in DOMAIN pre(z) |-> pre(z)[i].destination]]
        result == propagate_bfs(preexisting_adj, <<(<<source, target>>)>>, {},
                                g.discovered_links,
                                get_discovered_nodes(g.discovered_links), << >>)
    IN  [game |-> IF result.newly_discovered # << >>
                  THEN [g EXCEPT !.discovered_links = result.discovered_links]
                  ELSE g,
         newly_discovered |-> result.newly_discovered]

\* History of a call: its arguments, the discovered links before it and the
\* list it returned.
ServerOp(source, target, before, returned) ==
    [op |-> "propagate", source |-> source, target |-> target,
     before |-> before, returned |-> returned]

\* POST /api/games: the game is created once, with the zone pairs of the
\* body.
CreateGame ==
    /\ ~serverGame.created
    /\ serverGame' \in CreatedGames
    /\ lastOp' = [op |-> "createGame"]
    /\ UNCHANGED <<hostVars, viewerVars, syncVars, dashboard, router>>

\* POST /api/games/{game_id}/discoveries, or a discovery message of the mod:
\* the player went through a connection of the game, in either direction.
PostDiscovery ==
    /\ serverGame.created
    /\ Len(serverGame.discovered_links) < MaxDiscoveredLinks
    /\ \E source \in ServerZones, target \in ServerZones :
          /\ \E i \in DOMAIN serverGame.zone_pairs :
                \/ /\ serverGame.zone_pairs[i].source = source
                   /\ serverGame.zone_pairs[i].destination = target
                \/ /\ serverGame.zone_pairs[i].source = target
                   /\ serverGame.zone_pairs[i].destination = source
          /\ serverGame' = propagate_discovery(serverGame, source, target).game
          /\ lastOp' = ServerOp(source, target, serverGame.discovered_links,
                                propagate_discovery(serverGame, source, target).newly_discovered)
    /\ UNCHANGED <<hostVars, viewerVars, syncVars, dashboard, router>>

-----------------------------------------------------------------------------

\* The spoiler log of the host whose session the viewer joins.
SessionLog == SubList(ConnectionLines, 1..5, 1)

InitPages(logs) ==
    /\ graphData \in {computeOneWayLinks(log) : log \in logs}
    /\ explorationMode = TRUE
    /\ explorationState = renderGraph(initExplorationState(graphData), graphData, TRUE)
    /\ storage = <<saveExplorationToStorage(explorationState)>>
    /\ viewerGraph = [loaded |-> FALSE, links |-> << >>]
    /\ viewerMode = TRUE
    /\ viewerState = discoverNode(EmptyExplorationState, START_NODE)
    /\ bootstrapTimer = << >>
    /\ viewerLayout = InitLayout
    /\ dashboard = InitDashboard
    /\ router = InitRouter
    /\ serverGame = InitGame

InitWith(logs) ==
    /\ InitPages(logs)
    /\ sync = InitSync
    /\ relay = "up"
    /\ lastOp = Op("init", START_NODE, NULL, {})

Next ==
    \/ DiscoverArea
    \/ UndiscoverArea
    \/ ToggleTag
    \/ ResetExplorationState
    \/ LoadExplorationState
    \/ SetExplorationMode

\* The host page alone, over every spoiler log.
Init == InitWith(SpoilerLogs)

Spec == Init /\ [][Next]_vars

\* The host page of one spoiler log, sharing its session with a viewer.
SessionInit == InitWith({SessionLog})

SessionNext ==
    \/ DiscoverArea
    \/ UndiscoverArea
    \/ ToggleTag
    \/ ResetExplorationState
    \/ LoadExplorationState
    \/ SetExplorationMode
    \/ StateUpdate
    \/ BootstrapTimer

SpecSession == SessionInit /\ [][SessionNext]_vars

\* The host page in a session over a working relay: the user discovers zones
\* and edits tags, and every timer runs when it is due.
ThrottleInit ==
    /\ InitPages({SessionLog})
    /\ sync = InitSync
    /\ relay = "up"
    /\ lastOp = SyncOp("init", InitSync, InitSync, FALSE, FALSE)

ThrottleNext ==
    \/ CreateSession
    \/ SocketOpen
    \/ SocketMessage
    \/ DiscoverAreaInSession
    \/ ToggleTagInSession
    \/ ThrottleTimer
    \/ AdvanceTime

SpecThrottle == ThrottleInit /\ [][ThrottleNext]_vars

\* The host and a viewer whose snapshots carry positions and a viewport.
LayoutLog == SubList(ConnectionLines, 1..2, 1)

LayoutInit == InitWith({LayoutLog})

LayoutNext ==
    \/ DiscoverArea
    \/ ToggleTag
    \/ StateUpdate
    \/ BootstrapTimer
    \/ SessionData

SpecLayout == LayoutInit /\ [][LayoutNext]_vars

\* The dashboard page on its own.
DashboardInit == InitWith({SessionLog})

DashboardNext ==
    \/ HandleFileSelect
    \/ ResetNewGameForm

SpecDashboard == DashboardInit /\ [][DashboardNext]_vars

SyncInit ==
    /\ InitPages({SessionLog})
    /\ sync = InitSync
    /\ relay = "unstable"
    /\ lastOp = SyncOp("init", InitSync, InitSync, FALSE, FALSE)

SyncNext ==
    \/ CreateSession
    \/ JoinSession
    \/ DisconnectSession
    \/ SocketOpen
    \/ SocketMessage
    \/ SocketError
    \/ SocketClose
    \/ HostEvent
    \/ DebounceTimer
    \/ ThrottleTimer
    \/ ReconnectTimer
    \/ AdvanceTime

\* One page on an unstable connection, its user starting, joining and
\* ending sessions.
SpecSync == SyncInit /\ [][SyncNext]_vars

OutageInit ==
    /\ InitPages({SessionLog})
    /\ sync = InitSync
    /\ relay = "up"
    /\ lastOp = SyncOp("init", InitSync, InitSync, FALSE, FALSE)

OutageNext ==
    \/ CreateSession
    \/ JoinSession
    \/ SocketOpen
    \/ SocketMessage
    \/ SocketError
    \/ SocketClose
    \/ HostEvent
    \/ ThrottleTimer
    \/ ReconnectTimer
    \/ AdvanceTime
    \/ RelayDown

\* One page that starts or joins one session over a working relay; the
\* relay then goes down for good and the user leaves the page alone.  The
\* browser reports every failed connection and every lost one, and runs
\* every timer that is due.
SpecOutage ==
    /\ OutageInit
    /\ [][OutageNext]_vars
    /\ WF_vars(SocketError)
    /\ WF_vars(SocketClose)
    /\ WF_vars(ThrottleTimer)
    /\ WF_vars(ReconnectTimer)
    /\ WF_vars(AdvanceTime)

\* The longest spoiler log of the page with a node selected.
MaxPathLinks == 7

\* The page with a node selected: the spoiler logs are the first lines of
\* the connection list.
PathLogs ==
    {SubList(ConnectionLines, 1..n, 1) : n \in 1..Min(MaxPathLinks, Len(ConnectionLines))}

PathsInit == InitWith(PathLogs)

PathsNext ==
    \/ DiscoverArea
    \/ UndiscoverArea
    \/ SetExplorationMode
    \/ SelectNode

SpecPaths == PathsInit /\ [][PathsNext]_vars

-----------------------------------------------------------------------------
(* Graph load: hub marks, and a graph built from a game of the server      *)

\* The longest link list of a loaded graph.
MaxGraphLinks == 3

\* The zones the links of a loaded graph join.
GraphZones == {START_NODE, "Roundtable Hold"}

\* parseConnectionLine sets isInherentlyOneWay on random links only.
ParsedLinks ==
    {Conn(s, t, ty, ow) :
        s \in GraphZones, t \in GraphZones, ty \in {"random", "preexisting"},
        ow \in BOOLEAN} \ {Conn(s, t, "preexisting", TRUE) : s \in GraphZones, t \in GraphZones}

LinkLists(S) == UNION {[1..n -> S] : n \in 0..MaxGraphLinks}

\* The link lists of the spoiler logs loaded from a file.
GraphLogs == LinkLists(ParsedLinks)

\* A zone pair of a game as the server returns it.
ZonePairs ==
    [source : GraphZones, destination : GraphZones, type : {"random", "preexisting"}]

\* The games the server returns: the zone pairs, and the discovered links
\* among them.
ServerGames ==
    UNION {{[zone_pairs |-> zp, discovered_links |-> dl] :
               dl \in {{}} \cup {{<<zp[i].source, zp[i].destination>>} : i \in DOMAIN zp}} :
           zp \in LinkLists(ZonePairs)}

\* convertServerDataToGraph: one link per zone pair, with source, target and
\* type (the details are not modelled); the object has no oneWay property.
convertServerDataToGraph(game) ==
    [i \in DOMAIN game.zone_pairs |->
        [source |-> game.zone_pairs[i].source,
         target |-> game.zone_pairs[i].destination,
         type   |-> game.zone_pairs[i].type]]

\* What the engine and the renderer read in link.oneWay: the property of an
\* object that lacks it is undefined, which their tests take as false.
ReadOneWay(links) ==
    [i \in DOMAIN links |->
        [source |-> links[i].source,
         target |-> links[i].target,
         type   |-> links[i].type,
         oneWay |-> "oneWay" \in DOMAIN links[i] /\ links[i].oneWay]]

\* loadExplorationFromServer: the start zone and both ends of every
\* discovered link (tags and positions of the game are left empty).
loadExplorationFromServer(game) ==
    [discovered |-> {START_NODE} \cup {l[1] : l \in game.discovered_links}
                                 \cup {l[2] : l \in game.discovered_links},
     discoveredLinks |-> {makeLinkId(l[1], l[2]) : l \in game.discovered_links},
     tags |-> << >>]

\* Mutant: a zone is a hub from four connections on.
markHubs_FourOrMore(links) ==
    [n \in Zones |-> buildNodeConnectionsMap(links)[n].degree >= 4]

\* renderGraph: n.isHub = conns && conns.degree >= 3
markHubs(links) ==
    [n \in Zones |-> buildNodeConnectionsMap(links)[n].degree >= 3]

\* History of a render: the degree and the hub mark of every zone.
GraphOp(op, links) ==
    [op |-> op,
     degree |-> [n \in Zones |-> buildNodeConnectionsMap(links)[n].degree],
     isHub |-> markHubs(links)]

\* The render that a graphNeedsRender event runs.
RenderGraph ==
    /\ explorationState' =
           renderGraph(explorationState, ReadOneWay(graphData), explorationMode)
    /\ storage' = IF explorationMode
                  THEN <<saveExplorationToStorage(explorationState')>> ELSE storage
    /\ lastOp' = GraphOp("render", ReadOneWay(graphData))
    /\ UNCHANGED <<graphData, explorationMode, viewerVars, syncVars, dashboard, router, serverGame>>

\* initPlayMode, on the page of a /play route, which has no graph before:
\* the graph is the game's, the exploration state is the game's, and the
\* graph is rendered.
InitPlayMode ==
    /\ graphData = << >>
    /\ \E game \in ServerGames :
          /\ graphData' = convertServerDataToGraph(game)
          /\ explorationState' =
                 renderGraph(loadExplorationFromServer(game),
                             ReadOneWay(graphData'), explorationMode)
          /\ lastOp' = GraphOp("initPlayMode", ReadOneWay(graphData'))
    /\ storage' = IF explorationMode
                  THEN <<saveExplorationToStorage(explorationState')>> ELSE storage
    /\ UNCHANGED <<explorationMode, viewerVars, syncVars, dashboard, router, serverGame>>

\* History of a file load: the links as the parser returned them.
LoadOp(log) == [op |-> "loadFile", links |-> log]

\* The page with a graph loaded from a file, or from a game of the server.
GraphInit ==
    /\ InitPages(GraphLogs)
    /\ sync = InitSync
    /\ relay = "up"
    /\ \E log \in GraphLogs :
          /\ graphData = computeOneWayLinks(log)
          /\ lastOp = LoadOp(log)

GraphNext ==
    \/ RenderGraph
    \/ InitPlayMode

SpecGraph == GraphInit /\ [][GraphNext]_vars

-----------------------------------------------------------------------------
(* Legacy saves: the migration of a record without discoveredLinks         *)

\* Mutant: the migration marks the links that can be walked both ways only.
MigrateLink_TwoWayOnly(es, link) ==
    IF link.source \in es.discovered /\ link.target \in es.discovered /\ ~link.oneWay
    THEN discoverLink(es, link.source, link.target, TRUE)
    ELSE es

\* migrateDiscoveredLinks, the body of graphData.links.forEach
MigrateLink(es, link) ==
    IF link.source \in es.discovered /\ link.target \in es.discovered
    THEN discoverLink(es, link.source, link.target, ~link.oneWay)
    ELSE es

\* migrateDiscoveredLinks: nothing to do when discoveredLinks has entries
migrateDiscoveredLinks(es, links) ==
    LET F[i \in 0..Len(links)] ==
            IF i = 0 THEN es ELSE MigrateLink(F[i - 1], links[i])
    IN IF es.discoveredLinks # {} THEN es ELSE F[Len(links)]

\* The records an earlier version of the page saved: the discovered zones,
\* the start zone among them, and the tags, without discoveredLinks.
LegacyRecords ==
    {[discovered |-> SetToSeq(d \cup {START_NODE}), tags |-> fromEntries(t)] :
        d \in SUBSET Zones,
        t \in {<< >>} \cup {[z \in {"Limgrave"} |-> <<tagId>>] : tagId \in TagIds}}

\* History of the load of a legacy record: the record and the state the
\* migration left, before the render.
LegacyOp(saved, migrated) == [op |-> "legacy", saved |-> saved, migrated |-> migrated]

\* The page opens a spoiler log whose saved record is a legacy one:
\* loadExplorationState, migrateDiscoveredLinks, then the render and its save.
LoadLegacyState ==
    /\ \E saved \in LegacyRecords :
       \E migrated \in {migrateDiscoveredLinks(loadExplorationFromStorage(saved),
                                               graphData)} :
          /\ explorationState' = renderGraph(migrated, graphData, explorationMode)
          /\ lastOp' = LegacyOp(saved, migrated)
    /\ storage' = <<saveExplorationToStorage(explorationState')>>
    /\ UNCHANGED <<graphData, explorationMode, viewerVars, syncVars, dashboard, router, serverGame>>

LegacyNext ==
    \/ LoadLegacyState
    \/ SetExplorationMode

SpecLegacy == Init /\ [][LegacyNext]_vars

-----------------------------------------------------------------------------
(* Calls of the engine with a zone id that the graph does not hold         *)

\* A zone id that is not a node of the graph.
UnknownZone == "Nowhere"

\* History of such a call: the exploration state before it.
UnknownOp(op, before) == [op |-> op, areaId |-> UnknownZone, before |-> before]

\* discoverArea(areaId, fromNodeId, viaLink) with an areaId that the graph
\* does not hold, then the render and the save the call ends with.
DiscoverUnknownArea ==
    /\ explorationMode
    /\ \E fromNodeId \in {NULL} \cup explorationState.discovered :
          /\ explorationState' =
                 renderGraph(discoverWithPreexisting(explorationState, graphData,
                                                     UnknownZone, fromNodeId, NoLink),
                             graphData, explorationMode)
          /\ lastOp' = UnknownOp("discover-unknown", explorationState)
    /\ storage' = <<saveExplorationToStorage(explorationState')>>
    /\ UNCHANGED <<graphData, explorationMode, viewerVars, syncVars, dashboard, router, serverGame>>

\* undiscoverArea(areaId) with an areaId that the graph does not hold
UndiscoverUnknownArea ==
    /\ explorationMode
    /\ explorationState' =
           renderGraph(undiscoverArea(explorationState, graphData, UnknownZone),
                       graphData, explorationMode)
    /\ lastOp' = UnknownOp("undiscover-unknown", explorationState)
    /\ storage' = <<saveExplorationToStorage(explorationState')>>
    /\ UNCHANGED <<graphData, explorationMode, viewerVars, syncVars, dashboard, router, serverGame>>

UnknownNext ==
    \/ DiscoverArea
    \/ UndiscoverArea
    \/ DiscoverUnknownArea
    \/ UndiscoverUnknownArea

SpecUnknown == SessionInit /\ [][UnknownNext]_vars

\* The router of a page, its user following links while handlers await.
RouterNext ==
    \/ Navigate
    \/ HandlerReturns

SpecRouter == SessionInit /\ [][RouterNext]_vars

\* The server and the mod of one game.
ServerNext ==
    \/ CreateGame
    \/ PostDiscovery

SpecServer == SessionInit /\ [][ServerNext]_vars

-----------------------------------------------------------------------------
(* Properties of the exploration state                                     *)

\* The zones reached from S through preexisting links: forward always,
\* backward when the link is not one-way.
RECURSIVE PreexistingReach(_, _)
PreexistingReach(links, S) ==
    LET step == S \cup {links[i].target : i \in {j \in DOMAIN links :
                            links[j].type = "preexisting" /\ links[j].source \in S}}
                  \cup {links[i].source : i \in {j \in DOMAIN links :
                            /\ links[j].type = "preexisting"
                            /\ ~links[j].oneWay
                            /\ links[j].target \in S}}
    IN IF step = S THEN S ELSE PreexistingReach(links, step)

\* The discovered zones reached from START_NODE through links discovered in
\* either direction: forward always, backward when the link is not one-way.
RECURSIVE LinkReachFrom(_, _, _)
LinkReachFrom(es, links, S) ==
    LET known(i) == <<links[i].source, links[i].target>> \in es.discoveredLinks
                    \/ <<links[i].target, links[i].source>> \in es.discoveredLinks
        step == S \cup {links[i].target : i \in {j \in DOMAIN links :
                            /\ known(j)
                            /\ links[j].source \in S
                            /\ links[j].target \in es.discovered}}
                  \cup {links[i].source : i \in {j \in DOMAIN links :
                            /\ known(j)
                            /\ ~links[j].oneWay
                            /\ links[j].target \in S
                            /\ links[j].source \in es.discovered}}
    IN IF step = S THEN S ELSE LinkReachFrom(es, links, step)

LinkReach(es, links) == LinkReachFrom(es, links, {START_NODE})

\* C1: START_NODE is discovered in every reachable exploration state, of the
\* host (after init, reset, load, discover, undiscover) and of the viewer
\* (after every snapshot it applies), and undiscover(START_NODE) changes
\* neither discovered nor discoveredLinks nor tags.
StartNodeAlwaysDiscovered ==
    /\ START_NODE \in explorationState.discovered
    /\ START_NODE \in viewerState.discovered
    /\ undiscoverArea(explorationState, graphData, START_NODE) = explorationState
    /\ (lastOp.op = "undiscover" /\ lastOp.areaId = START_NODE) => lastOp.delta = {}

\* C1 witness: undiscover(START_NODE) has just run on a host that holds
\* discovered links and a tag, with a viewer that has applied a snapshot.
StartNodeUndiscoverTried ==
    /\ lastOp.op = "undiscover"
    /\ lastOp.areaId = START_NODE
    /\ viewerGraph.loaded
    /\ Cardinality(explorationState.discoveredLinks) > 1
    /\ DOMAIN explorationState.tags # {}

\* C2: both ends of every key "s|t" of discoveredLinks are discovered, on
\* the host after every handler and on the viewer after every snapshot.
DiscoveredLinksHaveDiscoveredEnds ==
    /\ \A linkId \in explorationState.discoveredLinks :
          linkId[1] \in explorationState.discovered
          /\ linkId[2] \in explorationState.discovered
    /\ \A linkId \in viewerState.discoveredLinks :
          linkId[1] \in viewerState.discovered
          /\ linkId[2] \in viewerState.discovered

\* C2 witness: an undiscover has cascaded on the host, which still holds
\* discovered links, and the viewer holds links it copied from a snapshot.
LinksAfterCascadeAndCopy ==
    /\ lastOp.op = "undiscover"
    /\ Cardinality(lastOp.delta) > 1
    /\ explorationState.discoveredLinks # {}
    /\ viewerGraph.loaded
    /\ <<"Roundtable Hold", "Limgrave">> \in viewerState.discoveredLinks

\* C3: discover(z) leaves discovered = the prior set plus the zones reached
\* from z through preexisting links in a traversable direction, and the
\* initial state is that closure of START_NODE.
DiscoverAddsPreexistingClosure ==
    /\ lastOp.op \in {"init", "reset"} =>
          explorationState.discovered = PreexistingReach(graphData, {START_NODE})
    /\ explorationMode =>
          \A c \in PlaceholderClicks(explorationState, graphData) \cup DirectCalls :
             \A after \in {discoverWithPreexisting(explorationState, graphData,
                                                   c.areaId, c.fromNodeId, c.viaLink)} :
                /\ after.discovered =
                      explorationState.discovered
                        \cup PreexistingReach(graphData, {c.areaId})
                /\ renderGraph(after, graphData, TRUE).discovered = after.discovered

\* C3 witness: discovering Limgrave from Roundtable Hold has pulled in
\* Stormveil Castle through the preexisting pair.
DiscoverPropagated ==
    /\ lastOp.op = "discover"
    /\ lastOp.areaId = "Limgrave"
    /\ lastOp.fromNodeId = "Roundtable Hold"
    /\ lastOp.delta = {"Limgrave", "Stormveil Castle"}

\* C4: after undiscover(z), z # START_NODE, every zone still discovered is
\* reached from START_NODE through discovered links in a traversable
\* direction, and the zones discovered before that are not so reached are
\* no longer discovered.
UndiscoverKeepsOnlyReachable ==
    /\ (lastOp.op = "undiscover" /\ lastOp.areaId # START_NODE) =>
          explorationState.discovered \subseteq LinkReach(explorationState, graphData)
    /\ explorationMode =>
          \A z \in Zones \ {START_NODE} :
             \A after \in {undiscoverArea(explorationState, graphData, z)} :
                /\ after.discovered \subseteq LinkReach(after, graphData)
                /\ after.discovered =
                      LinkReach([explorationState EXCEPT
                                    !.discovered = @ \ {z},
                                    !.discoveredLinks =
                                        {k \in @ : k[1] # z /\ k[2] # z}],
                                graphData)

\* C4 witness: undiscovering Limgrave has cut Stormveil Castle off, and both
\* are gone.
UndiscoverCascaded ==
    /\ lastOp.op = "undiscover"
    /\ lastOp.areaId = "Limgrave"
    /\ lastOp.delta = {"Limgrave", "Stormveil Castle"}
    /\ "Stormveil Castle" \notin explorationState.discovered

-----------------------------------------------------------------------------
(* Properties of the sync layer                                            *)

ReconnectTimers(s) == {j \in 1..Len(s.timers) : s.timers[j].kind = "reconnect"}

\* C5: a snapshot timer that was pending when disconnectSession ran sends no
\* state_update afterwards, neither on the closed session nor into a
\* session started later.
StaleSnapshotTimerSendsNothing ==
    ~(lastOp.op = "throttle" /\ lastOp.stale /\ lastOp.sent)

\* C6: a reconnection timer that was pending when disconnectSession ran
\* makes no reconnection attempt and leaves the connection and reconnection
\* state of the page as it finds it: its callback does nothing but end.
StaleReconnectTimerInert ==
    [][lastOp'.op = "reconnect" /\ lastOp'.stale
          => sync' = RemoveTimer(sync, DueTimer(sync))]_vars

\* C8: a page connected as a viewer sends no state_update to the relay.
ViewerSendsNoStateUpdate ==
    ~(lastOp.op = "throttle" /\ lastOp.sent /\ lastOp.asViewer)

\* C9: while the relay stays down, handleDisconnect sets no reconnection
\* timer once MAX_RECONNECT_DURATION has passed since the first disconnect,
\* and the page ends disconnected for good, its connected panel hidden,
\* with no reconnection pending.
RetriesEndAfterMaxDuration ==
    /\ [](\A j \in ReconnectTimers(sync) :
             sync.timers[j].armedAt < MAX_RECONNECT_DURATION)
    /\ [](relay = "down"
            => <>[](/\ ~sync.syncConnected
                    /\ ~sync.connectedUI
                    /\ ~sync.isReconnecting
                    /\ ReconnectTimers(sync) = {}))

\* The relay is down and handleDisconnect has just given the session up.
GaveUpAfterMaxDuration ==
    relay = "down" /\ lastOp.gaveUp /\ ~sync.syncConnected

\* C10: the timer of the n-th consecutive reconnection attempt is set for
\* min(RECONNECT_BASE_DELAY * 2^(n-1), RECONNECT_MAX_DELAY).
BackoffDelayOfNthAttempt ==
    \A j \in ReconnectTimers(sync) :
       sync.timers[j].delay =
           Min(RECONNECT_BASE_DELAY * Pow2(sync.timers[j].n - 1), RECONNECT_MAX_DELAY)

-----------------------------------------------------------------------------
(* Properties of the engine's functions                                    *)

\* C11: propagation is idempotent.  Every page state is the outcome of a
\* propagatePreexistingDiscoveries call or of a handler that adds no zone
\* and no link to it; calling propagatePreexistingDiscoveries on it once more
\* leaves discovered and discoveredLinks as they are.
PropagationIdempotent ==
    \E again \in {propagatePreexistingDiscoveries(explorationState, graphData)} :
        /\ again.discovered = explorationState.discovered
        /\ again.discoveredLinks = explorationState.discoveredLinks

\* The render after a reset has propagated: it added zones and links to
\* the state initExplorationState had made.
PropagationAddedZones ==
    /\ lastOp.op = "reset"
    /\ explorationState.discovered # {START_NODE}
    /\ explorationState.discoveredLinks # {}

HasReverse(links, i, types) ==
    \E j \in DOMAIN links :
        /\ links[j].type \in types
        /\ links[j].source = links[i].target
        /\ links[j].target = links[i].source

\* C13: in the links computeOneWayLinks has marked, a preexisting link whose
\* reverse is present as a preexisting link is not one-way (and so is its
\* reverse), and a preexisting link with no reverse link at all is one-way.
OneWayOfPreexistingLinks ==
    \A i \in DOMAIN graphData :
        graphData[i].type = "preexisting" =>
            /\ HasReverse(graphData, i, {"preexisting"}) => ~graphData[i].oneWay
            /\ ~HasReverse(graphData, i, {"preexisting", "random"}) => graphData[i].oneWay

\* The spoiler log holds a symmetric pair of preexisting links and a lone
\* preexisting link.
SymmetricPairAndLoneLink ==
    /\ \E i \in DOMAIN graphData :
          graphData[i].type = "preexisting" /\ HasReverse(graphData, i, {"preexisting"})
    /\ \E i \in DOMAIN graphData :
          /\ graphData[i].type = "preexisting"
          /\ ~HasReverse(graphData, i, {"preexisting", "random"})
          /\ graphData[i].oneWay

\* C14: saving an exploration state and loading it back gives a state with
\* the same discovered zones, the same discovered links and the same tags.
SaveThenLoadReproduces ==
    \E loaded \in {loadExplorationFromStorage(saveExplorationToStorage(explorationState))} :
        /\ loaded.discovered = explorationState.discovered
        /\ loaded.discoveredLinks = explorationState.discoveredLinks
        /\ loaded.tags = explorationState.tags

\* A state with several zones, links and tags has been read back from the
\* storage.
LoadedSavedState ==
    /\ lastOp.op = "load"
    /\ Cardinality(explorationState.discovered) > 1
    /\ explorationState.discoveredLinks # {}
    /\ DOMAIN explorationState.tags # {}
    /\ storage = <<saveExplorationToStorage(explorationState)>>

\* The zones joined to a zone of S by a link of the given type.
Neighbours(links, S, type) ==
    {z \in Zones : \E i \in DOMAIN links :
        /\ links[i].type = type
        /\ \/ links[i].source \in S /\ links[i].target = z
           \/ links[i].target \in S /\ links[i].source = z}

RECURSIVE PreexistingClosure(_, _)
PreexistingClosure(links, S) ==
    IF Neighbours(links, S, "preexisting") \subseteq S THEN S
    ELSE PreexistingClosure(links, S \cup Neighbours(links, S, "preexisting"))

\* The zone the player asked to discover in the step, if any.
ExplicitlyDiscovered(op) == IF op.op = "discover" THEN {op.areaId} ELSE {}

\* C15: random links are never propagated.  A zone a step adds to discovered
\* is the zone the player asked to discover or is joined by preexisting links
\* to that zone or to the zones discovered before; a zone joined to them by
\* random links only is never added.
RandomLinksNeverPropagated ==
    [][\A z \in explorationState'.discovered \ explorationState.discovered :
          z \in PreexistingClosure(graphData,
                    explorationState.discovered \cup ExplicitlyDiscovered(lastOp'))]_vars

\* A discovery has propagated to another zone and has left undiscovered a
\* zone that only random links join to the discovered ones.
PropagatedPastRandomLink ==
    /\ lastOp.op = "discover"
    /\ lastOp.delta \ {lastOp.areaId} # {}
    /\ \E z \in Neighbours(graphData, explorationState.discovered, "random") :
          /\ z \notin explorationState.discovered
          /\ z \notin PreexistingClosure(graphData, explorationState.discovered)

\* C16: discovering a zone from another zone records the key of the link
\* from that zone to the discovered one, and the reverse key too when the
\* link is absent or is not one-way; over a one-way link the reverse key is
\* not recorded.  Stated of every discovery the rendered graph offers and of
\* the same calls made without a link.
DiscoverRecordsLinkKeys ==
    \A c \in PlaceholderClicks(explorationState, graphData) :
      \A viaLink \in {c.viaLink, NoLink} :
        \E after \in {discoverWithPreexisting(explorationState, graphData,
                                               c.areaId, c.fromNodeId, viaLink)} :
            /\ makeLinkId(c.fromNodeId, c.areaId) \in after.discoveredLinks
            /\ (viaLink.isNull \/ ~viaLink.oneWay)
                  => makeLinkId(c.areaId, c.fromNodeId) \in after.discoveredLinks
            /\ (~viaLink.isNull /\ viaLink.oneWay
                   /\ makeLinkId(c.areaId, c.fromNodeId) \notin explorationState.discoveredLinks)
                  => makeLinkId(c.areaId, c.fromNodeId) \notin after.discoveredLinks

\* A zone has been discovered over a one-way link, whose reverse key is not
\* recorded, after another over a two-way link, recorded with both keys.
DiscoveredOverOneWayLink ==
    /\ lastOp.op = "discover"
    /\ lastOp.fromNodeId # NULL
    /\ \E i \in DOMAIN graphData :
          /\ graphData[i].type = "random"
          /\ graphData[i].oneWay
          /\ graphData[i].source = lastOp.fromNodeId
          /\ graphData[i].target = lastOp.areaId
    /\ makeLinkId(lastOp.fromNodeId, lastOp.areaId) \in explorationState.discoveredLinks
    /\ makeLinkId(lastOp.areaId, lastOp.fromNodeId) \notin explorationState.discoveredLinks
    /\ \E i \in DOMAIN graphData :
          /\ graphData[i].type = "random"
          /\ ~graphData[i].oneWay
          /\ makeLinkId(graphData[i].source, graphData[i].target)
                \in explorationState.discoveredLinks
          /\ makeLinkId(graphData[i].target, graphData[i].source)
                \in explorationState.discoveredLinks

\* The links whose two ends are discovered and whose key is recorded in
\* neither direction.
UndiscoveredLinksBetweenDiscovered(es, links) ==
    {i \in DOMAIN links :
        /\ links[i].source \in es.discovered
        /\ links[i].target \in es.discovered
        /\ ~isLinkDiscovered(es, links[i].source, links[i].target)
        /\ ~isLinkDiscovered(es, links[i].target, links[i].source)}

\* C17: a link s -> t between two discovered zones that is itself not
\* discovered is rendered with the placeholder ???_s_t, which hangs off s
\* and stands for t, and the link adds the placeholder ???_t_s, hanging off
\* t, exactly when it is not one-way.
UndiscoveredLinkPlaceholders ==
    \A i \in UndiscoveredLinksBetweenDiscovered(explorationState, graphData) :
        \E link \in {graphData[i]} :
            /\ \E p \in placeholderNodes(explorationState, graphData) :
                  /\ placeholderId(p) = PlaceholderIdOf(link.source, link.target)
                  /\ p.sourceNodeId = link.source
                  /\ p.realId = link.target
            /\ ~link.oneWay
                  => \E p \in placeholderNodes(explorationState, graphData) :
                        /\ placeholderId(p) = PlaceholderIdOf(link.target, link.source)
                        /\ p.sourceNodeId = link.target
                        /\ p.realId = link.source
            /\ link.oneWay
                  => \A p \in LinkPlaceholders(explorationState, link) :
                        placeholderId(p) # PlaceholderIdOf(link.target, link.source)

\* The rendered graph holds an undiscovered one-way link and an undiscovered
\* two-way link, each between two discovered zones.
UndiscoveredLinksOfBothKinds ==
    /\ \E i \in UndiscoveredLinksBetweenDiscovered(explorationState, graphData) :
          graphData[i].oneWay
    /\ \E i \in UndiscoveredLinksBetweenDiscovered(explorationState, graphData) :
          ~graphData[i].oneWay
    /\ explorationMode

\* The exploration state without the zone z and without the link keys z is
\* an end of.
WithoutZone(es, z) ==
    [discovered |-> es.discovered \ {z},
     discoveredLinks |-> {k \in es.discoveredLinks : k[1] # z /\ k[2] # z}]

\* One step along the links whose key is discovered in either direction,
\* forward, or backward when the link is not one-way.
PathStep(es, links, R) ==
    R \cup {n \in es.discovered : \E i \in DOMAIN links :
               /\ \/ <<links[i].source, links[i].target>> \in es.discoveredLinks
                  \/ <<links[i].target, links[i].source>> \in es.discoveredLinks
               /\ \/ links[i].source \in R /\ links[i].target = n
                  \/ links[i].target \in R /\ links[i].source = n /\ ~links[i].oneWay}

\* The zones with a discovered path from START_NODE.
RECURSIVE PathsFrom(_, _, _)
PathsFrom(es, links, R) ==
    IF PathStep(es, links, R) = R THEN R
    ELSE PathsFrom(es, links, PathStep(es, links, R))

KeptZones(es, links, z) ==
    WithoutZone(es, z).discovered \cap PathsFrom(WithoutZone(es, z), links, {START_NODE})

\* C18: undiscovering a zone z other than the start removes z and the zones
\* left without a discovered path from START_NODE, and no other: the zones
\* that still have such a path stay discovered, also after the render that
\* ends the handler.
UndiscoverRemovesOnlyUnreachable ==
    /\ [](\A z \in Zones \ {START_NODE} :
            undiscoverArea(explorationState, graphData, z).discovered
                = KeptZones(explorationState, graphData, z))
    /\ [][(lastOp'.op = "undiscover" /\ lastOp'.areaId # START_NODE)
            => KeptZones(explorationState, graphData, lastOp'.areaId)
                  \subseteq explorationState'.discovered]_vars

\* Undiscovering a zone has removed a second zone with it and has kept a
\* neighbour of the zone that has another path from the start.
UndiscoverKeptNeighbour ==
    /\ lastOp.op = "undiscover"
    /\ Cardinality(lastOp.delta) >= 2
    /\ lastOp.areaId \notin explorationState.discovered
    /\ \E k \in explorationState.discovered \ {START_NODE} :
          \E i \in DOMAIN graphData :
              {graphData[i].source, graphData[i].target} = {k, lastOp.areaId}

\* A text in which the parser recognizes no zone line and no connection line.
NoRecognizableLines(text) ==
    \A i \in DOMAIN text : text[i].kind \notin {"area", "connection"}

\* C19: a text with no recognizable zone or connection line is refused: the
\* form reports the error and holds no graph read from the text.
ParseFailsWithoutRecognizableLines ==
    (dashboard.file # << >> /\ NoRecognizableLines(dashboard.file))
        => /\ dashboard.error
           /\ ~dashboard.formShown

ThrottleTimers(s) == {j \in 1..Len(s.timers) : s.timers[j].kind = "throttle"}

\* C20: the snapshots of the host are throttled.  At most one throttle timer
\* is pending, whatever the number of syncState calls made meanwhile, and
\* when its window ends the timer is gone and, the socket being open, one
\* state_update is sent that carries the state of the host at that moment.
SnapshotThrottled ==
    /\ [](Cardinality(ThrottleTimers(sync)) = IF sync.syncThrottle THEN 1 ELSE 0)
    /\ [][(lastOp' # lastOp /\ lastOp'.op = "throttle")
            => /\ sync.syncThrottle
               /\ ~sync'.syncThrottle
               /\ ThrottleTimers(sync') = {}
               /\ IsOpen(sync, sync.ws)
                     => /\ lastOp'.sent
                        /\ lastOp'.state =
                             <<getFullSyncState(explorationState', graphData',
                                                explorationMode')>>]_vars

\* A throttle timer that absorbed a call to syncState, made by a handler that
\* changed the tags, has sent the snapshot with the changed tags.
CoalescedSnapshotSent ==
    /\ lastOp.op = "throttle"
    /\ lastOp.sent
    /\ lastOp.absorbed >= 1
    /\ DOMAIN explorationState.tags # {}
    /\ lastOp.state[1].nodes["Limgrave"].tags # << >>

FiniteNumbers(p) == isFinite(p.x) /\ isFinite(p.y)

\* What a snapshot with the given positions and viewport leaves of a layout.
PositionsApplied(layout, after, positions) ==
    \A z \in DOMAIN positions :
        IF FiniteNumbers(positions[z])
        THEN /\ z \in DOMAIN after.nodePositions
             /\ ~Differ(after.nodePositions[z].x, positions[z].x)
             /\ ~Differ(after.nodePositions[z].y, positions[z].y)
             /\ ~Differ(after.sim[z].x, positions[z].x)
             /\ ~Differ(after.sim[z].y, positions[z].y)
        ELSE /\ after.sim[z] = layout.sim[z]
             /\ z \in DOMAIN after.nodePositions
                   => \/ z \in DOMAIN layout.nodePositions
                         /\ after.nodePositions[z] = layout.nodePositions[z]
                      \/ after.nodePositions[z] = layout.sim[z]

RenderKeepsExplorationState ==
    explorationMode
    => \A areaId \in explorationState.discovered \ {START_NODE} :
          LET after == undiscoverArea(explorationState, graphData, areaId)
              rendered == renderGraph(after, graphData, explorationMode)
          IN /\ rendered.discovered = after.discovered
             /\ rendered.discoveredLinks = after.discoveredLinks
             /\ rendered.tags = after.tags

\* C23: once undiscoverArea(z) has run for a zone z other than the start, z
\* is not discovered and no key of discoveredLinks has z, or a zone the
\* cascade removed, as its source or its target.
UndiscoveredZoneAndLinksRemoved ==
    (lastOp.op = "undiscover" /\ lastOp.areaId # START_NODE)
    => /\ lastOp.areaId \notin explorationState.discovered
       /\ \A key \in explorationState.discoveredLinks :
             key[1] \notin lastOp.delta /\ key[2] \notin lastOp.delta

\* The link's key is discovered in one direction or the other.
KnownLink(es, link) ==
    isLinkDiscovered(es, link.source, link.target)
    \/ isLinkDiscovered(es, link.target, link.source)

\* C24: findReachableNodes traverses a link only if it is discovered, and
\* only forward, or backward when the link is not one-way: from whatever
\* zone the search starts, each zone it reaches after the first is the
\* discovered end of a discovered link whose other end was reached, in a
\* direction the link allows, and the zones reached are those such links
\* lead to.
ReachabilityOverDiscoveredLinks ==
    explorationMode
    => \A startNodeId \in Zones :
          LET reachable == findReachableNodes(explorationState, graphData, startNodeId)
          IN /\ reachable = LinkReachFrom(explorationState, graphData, {startNodeId})
             /\ \A r \in reachable \ {startNodeId} :
                   /\ r \in explorationState.discovered
                   /\ \E i \in DOMAIN graphData :
                         /\ KnownLink(explorationState, graphData[i])
                         /\ \/ graphData[i].target = r /\ graphData[i].source \in reachable
                            \/ /\ graphData[i].source = r
                               /\ graphData[i].target \in reachable
                               /\ ~graphData[i].oneWay

\* A search stopped at a discovered one-way link it would have had to follow
\* backward, and at an undiscovered link between two discovered zones.
ReachabilityStoppedAtLinks ==
    /\ explorationMode
    /\ \E startNodeId \in explorationState.discovered :
          LET reachable == findReachableNodes(explorationState, graphData, startNodeId)
              beyond == explorationState.discovered \ reachable
          IN /\ \E i \in DOMAIN graphData :
                   /\ graphData[i].oneWay
                   /\ KnownLink(explorationState, graphData[i])
                   /\ graphData[i].target \in reachable
                   /\ graphData[i].source \in beyond
             /\ \E i \in DOMAIN graphData :
                   /\ ~KnownLink(explorationState, graphData[i])
                   /\ graphData[i].source \in reachable
                   /\ graphData[i].target \in beyond
             /\ Cardinality(reachable) > 1

\* C25: discoverArea on a zone that is already discovered only records the
\* link it came by: discovered and tags are as before and nothing is
\* propagated, for the calls the page can make, through the render that
\* follows, and for the function on whatever set of discovered zones holds
\* the zone.
DiscoverOfDiscoveredRecordsLinkOnly ==
    explorationMode
    => /\ \A c \in PlaceholderClicks(explorationState, graphData) \cup DirectCalls :
             c.areaId \in explorationState.discovered
             => LET after == discoverWithPreexisting(explorationState, graphData,
                                                     c.areaId, c.fromNodeId, c.viaLink)
                    linkOnly == IF c.fromNodeId = NULL THEN explorationState
                                ELSE discoverLink(explorationState, c.fromNodeId, c.areaId,
                                                  c.viaLink.isNull \/ ~c.viaLink.oneWay)
                IN /\ after = linkOnly
                   /\ renderGraph(after, graphData, explorationMode) = linkOnly
       /\ \A discovered \in SUBSET Zones :
             \A areaId \in discovered, fromNodeId \in discovered \cup {NULL},
                viaLink \in {NoLink, ViaLink(TRUE), ViaLink(FALSE)} :
                LET es == [explorationState EXCEPT !.discovered = discovered]
                    after == discoverWithPreexisting(es, graphData, areaId,
                                                     fromNodeId, viaLink)
                IN /\ after.discovered = discovered
                   /\ after.tags = es.tags
                   /\ after.discoveredLinks \ es.discoveredLinks
                         \subseteq {makeLinkId(fromNodeId, areaId),
                                    makeLinkId(areaId, fromNodeId)}

\* The "Mark as discovered" button of the placeholder of an undiscovered link
\* between two discovered zones has been used: no zone was added, the link
\* is recorded.
DiscoveredLinkBetweenDiscovered ==
    /\ lastOp.op = "discover"
    /\ lastOp.fromNodeId # NULL
    /\ lastOp.delta = {}
    /\ isLinkDiscovered(explorationState, lastOp.fromNodeId, lastOp.areaId)
    /\ DOMAIN explorationState.tags # {}

\* The placeholder and the visible link of a link whose end d is discovered
\* and whose end u is not.
StandsInFor(es, link, d, u) ==
    /\ LinkPlaceholders(es, link) = {Placeholder(d, u, FALSE)}
    /\ ProcessedLinks(es, link) =
          {IF d = link.source
           THEN <<d, placeholderId(Placeholder(d, u, FALSE))>>
           ELSE <<placeholderId(Placeholder(d, u, FALSE)), d>>}

\* C26: a link with exactly one discovered end is rendered with exactly one
\* placeholder, which stands for the undiscovered end, has the discovered
\* end as its sourceNodeId and is the end the visible link is pointed at.
OnePlaceholderPerHalfKnownLink ==
    explorationMode
    => \A i \in DOMAIN graphData :
          LET link == graphData[i]
          IN /\ (link.source \in explorationState.discovered
                 /\ link.target \notin explorationState.discovered)
                => StandsInFor(explorationState, link, link.source, link.target)
             /\ (link.source \notin explorationState.discovered
                 /\ link.target \in explorationState.discovered)
                => StandsInFor(explorationState, link, link.target, link.source)

\* C26, amended: the same, but for a one-way link whose target alone is
\* discovered, which gets no placeholder and is not drawn; and after init on
\* Chapel of Anticipation -preexisting-> Roundtable Hold -random-> Limgrave
\* the render has the single placeholder ???_Roundtable Hold_Limgrave.
OnePlaceholderUnlessOneWayFromUnknown ==
    /\ explorationMode
       => \A i \in DOMAIN graphData :
             LET link == graphData[i]
             IN /\ (link.source \in explorationState.discovered
                    /\ link.target \notin explorationState.discovered)
                   => StandsInFor(explorationState, link, link.source, link.target)
                /\ (link.source \notin explorationState.discovered
                    /\ link.target \in explorationState.discovered)
                   => IF link.oneWay
                      THEN /\ LinkPlaceholders(explorationState, link) = {}
                           /\ ProcessedLinks(explorationState, link) = {}
                      ELSE StandsInFor(explorationState, link, link.target, link.source)
    /\ (graphData = SubList(ConnectionLines, 1..2, 1) /\ lastOp.op = "init")
       => PlaceholderIds(explorationState, graphData)
             = {"???_Roundtable Hold_Limgrave"}

\* One render holds a link known from its source only, a two-way link known
\* from its target only and a one-way link known from its target only.
HalfKnownLinksOfEachKind ==
    /\ explorationMode
    /\ \E i \in DOMAIN graphData :
          /\ graphData[i].source \in explorationState.discovered
          /\ graphData[i].target \notin explorationState.discovered
    /\ \E i \in DOMAIN graphData :
          /\ ~graphData[i].oneWay
          /\ graphData[i].source \notin explorationState.discovered
          /\ graphData[i].target \in explorationState.discovered
    /\ \E i \in DOMAIN graphData :
          /\ graphData[i].oneWay
          /\ graphData[i].source \notin explorationState.discovered
          /\ graphData[i].target \in explorationState.discovered

\* No id kept in an exploration state is the id of a placeholder.
WithoutPlaceholderIds(es) ==
    /\ \A id \in es.discovered : ~IsPlaceholderId(id)
    /\ \A key \in es.discoveredLinks :
          ~IsPlaceholderId(key[1]) /\ ~IsPlaceholderId(key[2])
    /\ \A id \in DOMAIN es.tags : ~IsPlaceholderId(id)

\* C27: placeholders are not persisted.  No placeholder id is a member of
\* discovered, an end of a key of discoveredLinks or a key of tags, on the
\* host or on a viewer that took the host's snapshot with its placeholder
\* entries, and none is in the record saved for the seed.
PlaceholdersNeverPersisted ==
    /\ WithoutPlaceholderIds(explorationState)
    /\ WithoutPlaceholderIds(viewerState)
    /\ \A i \in DOMAIN storage :
          /\ \A j \in DOMAIN storage[i].discovered :
                ~IsPlaceholderId(storage[i].discovered[j])
          /\ \A j \in DOMAIN storage[i].discoveredLinks :
                /\ ~IsPlaceholderId(storage[i].discoveredLinks[j][1])
                /\ ~IsPlaceholderId(storage[i].discoveredLinks[j][2])
          /\ \A entry \in storage[i].tags : ~IsPlaceholderId(entry[1])
    /\ \A data \in {getFullSyncState(explorationState, graphData, explorationMode)} :
          WithoutPlaceholderIds(SnapshotState(data))

\* The host has discovered a zone from a placeholder, tagged a zone and saved,
\* its render has placeholders, its snapshot has entries for them, and the
\* viewer has taken that snapshot.
PlaceholdersRenderedAndSent ==
    /\ explorationMode /\ viewerMode /\ viewerGraph.loaded
    /\ storage # << >>
    /\ "Limgrave" \in explorationState.discovered
    /\ DOMAIN explorationState.tags # {}
    /\ PlaceholderIds(explorationState, graphData) # {}
    /\ \E id \in DOMAIN getFullSyncState(explorationState, graphData,
                                         explorationMode).nodes : IsPlaceholderId(id)
    /\ viewerState = explorationState

\* C28: in exploration mode every zone of the path findPathFromStart returns,
\* the target apart, is discovered, for the selected node and for whatever
\* zone the path is asked for.
PathThroughDiscoveredZones ==
    explorationMode
    => /\ \A targetNodeId \in Zones :
             findPathFromStart(explorationState, graphData, explorationMode,
                               targetNodeId).nodes \ {targetNodeId}
                \subseteq explorationState.discovered
       /\ (lastOp.op = "select" /\ lastOp.showPathFromStart)
          => lastOp.result.nodes \ {lastOp.areaId} \subseteq explorationState.discovered

\* A path has been drawn in exploration mode; a path of two links ends at an
\* undiscovered zone, and a zone that has a path in spoiler mode has none
\* now, an undiscovered zone being in the way.
PathEndsAtUndiscoveredZone ==
    /\ explorationMode
    /\ lastOp.op = "select" /\ lastOp.showPathFromStart
    /\ lastOp.result # NoPath
    /\ \E targetNodeId \in Zones \ explorationState.discovered :
          Cardinality(findPathFromStart(explorationState, graphData, explorationMode,
                                        targetNodeId).links) = 2
    /\ \E targetNodeId \in Zones :
          /\ findPathFromStart(explorationState, graphData, TRUE, targetNodeId) = NoPath
          /\ findPathFromStart(explorationState, graphData, FALSE, targetNodeId) # NoPath

\* Link i leads from one zone to the other: forward, or backward when it is
\* not one-way.
TraversableStep(links, i, from, to) ==
    \/ links[i].source = from /\ links[i].target = to
    \/ ~links[i].oneWay /\ links[i].target = from /\ links[i].source = to

\* The zones within n traversable links of START_NODE, the zones on the way
\* being zones that can be traversed.
RECURSIVE WithinSteps(_, _, _, _)
WithinSteps(es, links, mode, n) ==
    IF n <= 0 THEN {START_NODE}
    ELSE LET near == WithinSteps(es, links, mode, n - 1)
         IN near \cup {to \in Zones :
                         \E from \in near, i \in DOMAIN links :
                            /\ ~mode \/ from \in es.discovered \/ from = START_NODE
                            /\ TraversableStep(links, i, from, to)}

\* The links of the set, each taken once, lead from one zone to the other.
RECURSIVE IsPathOver(_, _, _, _)
IsPathOver(links, pathLinks, from, to) ==
    IF pathLinks = {} THEN from = to
    ELSE \E i \in pathLinks, next \in Zones :
            /\ TraversableStep(links, i, from, next)
            /\ IsPathOver(links, pathLinks \ {i}, next, to)

\* C29: findPathFromStart returns the nodes and the links of one shortest
\* path from START_NODE to the target over the traversable links: the links
\* lead from START_NODE to the target, forward or backward over a link that
\* is not one-way, the nodes are the zones they pass, and the target is not
\* within fewer links; it returns no path only when there is none.
ShortestPathReturned ==
    /\ \A targetNodeId \in Zones \ {START_NODE} :
          LET path == findPathFromStart(explorationState, graphData, explorationMode,
                                        targetNodeId)
              n == Cardinality(path.links)
          IN IF path = NoPath
             THEN targetNodeId \notin WithinSteps(explorationState, graphData,
                                                  explorationMode, Cardinality(Zones))
             ELSE /\ IsPathOver(graphData, path.links, START_NODE, targetNodeId)
                  /\ path.nodes = {START_NODE}
                        \cup {graphData[i].source : i \in path.links}
                        \cup {graphData[i].target : i \in path.links}
                  /\ Cardinality(path.nodes) = n + 1
                  /\ targetNodeId \notin WithinSteps(explorationState, graphData,
                                                     explorationMode, n - 1)
    /\ (lastOp.op = "select" /\ lastOp.showPathFromStart)
       => lastOp.result = findPathFromStart(explorationState, graphData,
                                            explorationMode, lastOp.areaId)

\* The path drawn to Stormveil Castle has the two links of the way over the
\* one-way link from Roundtable Hold; the way over Limgrave has three, and a
\* one-way link that ends at START_NODE was not taken backward.
ShorterOfTwoPathsDrawn ==
    /\ lastOp.op = "select" /\ lastOp.showPathFromStart
    /\ lastOp.areaId = "Stormveil Castle"
    /\ Cardinality(lastOp.result.links) = 2
    /\ Len(graphData) >= 7
    /\ Cardinality(findPathFromStart(explorationState, SubList(graphData, 1..5, 1),
                                     explorationMode, lastOp.areaId).links) = 3
    /\ \E i \in DOMAIN graphData :
          /\ graphData[i].oneWay
          /\ graphData[i].target = START_NODE
          /\ graphData[i].source = lastOp.areaId

\* The zones of the line through startNodeId: the zones that can be
\* traversed and that a traversable link joins to startNodeId or to a zone
\* of the line whose degree is below 3.
RECURSIVE LineFrom(_, _, _, _, _)
LineFrom(es, links, mode, startNodeId, line) ==
    LET further == line \cup {to \in Zones :
                       /\ ~mode \/ to \in es.discovered
                       /\ \E from \in line, i \in DOMAIN links :
                             /\ from = startNodeId \/ Degree(links, from) < 3
                             /\ TraversableStep(links, i, from, to)}
    IN IF further = line THEN line
       ELSE LineFrom(es, links, mode, startNodeId, further)

\* C30: in followLinearPath a node stops further expansion once it is a hub:
\* every zone of the result other than startNodeId is the neighbour of a
\* zone of the result whose degree is below 3, whatever node of the page
\* the line is drawn from.
NothingBeyondAHub ==
    \A startNodeId \in IF explorationMode THEN explorationState.discovered ELSE Zones :
       LET line == followLinearPath(explorationState, graphData, explorationMode,
                                    startNodeId)
       IN \A to \in line.nodes \ {startNodeId} :
             \E from \in line.nodes, i \in DOMAIN graphData :
                /\ Degree(graphData, from) < 3
                /\ TraversableStep(graphData, i, from, to)

\* C30, amended: in followLinearPath a node other than startNodeId stops
\* further expansion once it is a hub.  The nodes of the result are the zones
\* reached from startNodeId over traversable links through zones of degree
\* below 3 (startNodeId itself is expanded whatever its degree), and each
\* link of the result joins two of them.
NothingBeyondAHubButFromStart ==
    /\ \A startNodeId \in Zones :
          LET line == followLinearPath(explorationState, graphData, explorationMode,
                                       startNodeId)
          IN /\ line.nodes = LineFrom(explorationState, graphData, explorationMode,
                                      startNodeId, {startNodeId})
             /\ Cardinality(line.links) = Cardinality(line.nodes) - 1
             /\ \A i \in line.links :
                   /\ graphData[i].source \in line.nodes
                   /\ graphData[i].target \in line.nodes
    /\ (lastOp.op = "select" /\ ~lastOp.showPathFromStart)
       => lastOp.result = followLinearPath(explorationState, graphData,
                                           explorationMode, lastOp.areaId)

\* The line drawn from a node ends at a hub: a zone that could be traversed
\* lies one link beyond the hub and is not in the result.
LineEndsAtHub ==
    /\ lastOp.op = "select" /\ ~lastOp.showPathFromStart
    /\ \E hub \in lastOp.result.nodes \ {lastOp.areaId} :
          /\ Degree(graphData, hub) >= 3
          /\ \E to \in Zones \ lastOp.result.nodes, i \in DOMAIN graphData :
                /\ TraversableStep(graphData, i, hub, to)
                /\ ~explorationMode \/ to \in explorationState.discovered


-----------------------------------------------------------------------------
(* Properties of the graph model                                           *)

\* The connections that touch a zone: every link with the zone at an end,
\* once forward, and once more reversed unless the link is one-way or a
\* self-loop.
Touching(links, n) ==
    {c \in (DOMAIN links) \X {"forward", "reverse"} :
        /\ links[c[1]].source = n \/ links[c[1]].target = n
        /\ c[2] = "reverse" =>
              ~links[c[1]].oneWay /\ links[c[1]].source # links[c[1]].target}

\* C31: the degree a render gives a zone is the count of the links that touch
\* it, a link that is not one-way counted once for each direction and a
\* self-loop counted once, and the zone is marked as a hub exactly when that
\* degree is 3 or more.
DegreeCountsConnections ==
    lastOp.op \in {"render", "initPlayMode"} =>
        \A n \in Zones :
            /\ lastOp.degree[n] = Cardinality(Touching(ReadOneWay(graphData), n))
            /\ lastOp.isHub[n] <=> lastOp.degree[n] >= 3

\* C31 witness: a render marked a zone with a self-loop as a hub of degree 3,
\* and left a zone of degree 2 unmarked.
HubWithSelfLoopRendered ==
    /\ lastOp.op = "render"
    /\ \E n \in Zones, m \in Zones :
          /\ \E i \in DOMAIN graphData :
                graphData[i].source = n /\ graphData[i].target = n
          /\ lastOp.degree[n] = 3 /\ lastOp.isHub[n]
          /\ lastOp.degree[m] = 2 /\ ~lastOp.isHub[m]


\* The links of a list that run from the target of link i to its source.
ReverseLinks(links, i) ==
    {j \in DOMAIN links :
        links[j].source = links[i].target /\ links[j].target = links[i].source}

ServerLinksCarryDerivedOneWay ==
    lastOp.op = "initPlayMode" =>
        LET derived == computeOneWayLinks(
                [i \in DOMAIN graphData |->
                    Conn(graphData[i].source, graphData[i].target,
                         graphData[i].type, FALSE)])
        IN \A i \in DOMAIN graphData :
               ReadOneWay(graphData)[i].oneWay = derived[i].oneWay


-----------------------------------------------------------------------------
(* Properties of the viewer's reconciliation                               *)

\* C34: when the viewer has applied a snapshot, by building its graph from it
\* or by updating the graph it has, its mode is the snapshot's and its
\* discovered zones, discovered links and tags are those the snapshot carries.
ViewerEqualsAppliedSnapshot ==
    lastOp.op \in {"bootstrap", "patch", "viewer-mode"} =>
        LET data == getFullSyncState(explorationState, graphData, explorationMode)
        IN /\ viewerMode = data.explorationMode
           /\ viewerState = SnapshotState(data)


\* C35: a snapshot that carries the viewer's own mode, discovered zones,
\* discovered links and tags, whatever its positions, viewport and highlighted
\* node, is applied in place: applyVisualState reports no re-render and leaves
\* the exploration state as it is, the valid positions are taken over, and
\* the highlighted node of the snapshot carries the class on the page.
SameStateSnapshotPatchedInPlace ==
    \A data \in {getFullSyncState(explorationState, graphData, explorationMode)} :
        (/\ viewerGraph.loaded
         /\ data.explorationMode = viewerMode
         /\ SnapshotState(data) = viewerState)
        => \A flagged \in FlaggedNodes(explorationState, graphData, explorationMode) :
           \E simNodes \in {RenderedNodes(viewerState, viewerGraph.links, viewerMode)} :
           \E applied \in {applyVisualState(viewerGraph, viewerMode, viewerState, data,
                                            hasMissingNodes(simNodes, flagged))} :
              /\ ~applied.rerendering
              /\ applied.es = viewerState /\ applied.mode = viewerMode
              /\ applyVisualClasses(simNodes, flagged, applied.rerendering) = flagged
              /\ \A positions \in [PositionedZones -> SamplePositions],
                    vp \in SampleViewports :
                    PositionsApplied(viewerLayout,
                                     applySessionLayout(viewerLayout, viewerMode,
                                                        viewerState, data, positions, vp,
                                                        hasMissingNodes(simNodes, flagged)),
                                     positions)

\* C35 witness: a snapshot with the viewer's own exploration state and a
\* highlighted node has been applied without a render: the node carries the
\* class and a node of the simulation has moved.
FlagsAndPositionsPatched ==
    /\ lastOp.op = "session-data"
    /\ ~lastOp.modeChanged /\ ~lastOp.changed /\ ~lastOp.rerendering
    /\ lastOp.flagged # {} /\ lastOp.classes = lastOp.flagged
    /\ \E z \in PositionedZones : viewerLayout.sim[z] = Pos(Num(20), Num(10))


-----------------------------------------------------------------------------
(* Properties of the legacy migration                                      *)

\* C36: the state the migration leaves for a legacy record marks every link
\* of the graph whose two ends are discovered as discovered, and holds the
\* discovered zones and the tags of the record as they were saved.
LegacyLinksMigrated ==
    lastOp.op = "legacy" =>
        /\ \A i \in DOMAIN graphData :
              (/\ graphData[i].source \in lastOp.migrated.discovered
               /\ graphData[i].target \in lastOp.migrated.discovered)
              => isLinkDiscovered(lastOp.migrated, graphData[i].source,
                                  graphData[i].target)
        /\ lastOp.migrated.discovered = SeqToSet(lastOp.saved.discovered)
        /\ fromEntries(lastOp.migrated.tags) = lastOp.saved.tags

\* C36 witness: a legacy record with a tag was loaded into a graph that holds
\* a one-way link and a two-way link between its discovered zones, and a link
\* to a zone it had not discovered.
LegacyRecordMigrated ==
    /\ lastOp.op = "legacy"
    /\ lastOp.saved.tags # {}
    /\ \E i \in DOMAIN graphData, j \in DOMAIN graphData, k \in DOMAIN graphData :
          /\ graphData[i].oneWay /\ ~graphData[j].oneWay
          /\ isLinkDiscovered(lastOp.migrated, graphData[i].source, graphData[i].target)
          /\ isLinkDiscovered(lastOp.migrated, graphData[j].target, graphData[j].source)
          /\ graphData[k].target \notin lastOp.migrated.discovered


-----------------------------------------------------------------------------
(* Properties of the calls with an unknown zone id                         *)

\* C37: a call of discoverArea or undiscoverArea with a zone id that the
\* graph does not hold leaves the discovered zones, the discovered links and
\* the tags as they were.
UnknownZoneIdsSkipped ==
    lastOp.op \in {"discover-unknown", "undiscover-unknown"} =>
        /\ explorationState.discovered = lastOp.before.discovered
        /\ explorationState.discoveredLinks = lastOp.before.discoveredLinks
        /\ explorationState.tags = lastOp.before.tags


\* C38: a page has at most one reconnection outstanding: the reconnection
\* timers that are pending and the sockets of reconnection attempts that are
\* still connecting are never more than one together.
AtMostOneReconnectionOutstanding ==
    Cardinality(ReconnectTimers(sync))
    + Cardinality({i \in Slots : /\ sync.sockets[i].isReconnect
                                 /\ sync.sockets[i].state = "connecting"}) <= 1


-----------------------------------------------------------------------------
(* Properties of the router                                                *)

\* The places of an event in the history of the router.
EventAt(e) == {i \in DOMAIN router.events : router.events[i] = e}

\* C39: the cleanup function a route handler returned runs at most once, and
\* it has run, after the return of its handler, before the handler of any
\* later navigation starts.
CleanupOnceBeforeNextHandler ==
    \A n \in 1..MaxNavigations :
        router.route[n] = "play" =>
            /\ Cardinality(EventAt(<<"cleanup", n>>)) <= 1
            /\ \A m \in (n + 1)..MaxNavigations :
                \A s \in EventAt(<<"start", m>>) :
                  \E d \in EventAt(<<"done", n>>), c \in EventAt(<<"cleanup", n>>) :
                      d < c /\ c < s


-----------------------------------------------------------------------------
(* Properties of the server's propagation                                  *)

\* The zones reachable from a zone by the preexisting zone pairs of a game.
RECURSIVE PreexistingFrom(_, _)
PreexistingFrom(zone_pairs, reached) ==
    LET more == {zone_pairs[i].destination :
                    i \in {j \in DOMAIN zone_pairs :
                              /\ zone_pairs[j].type = "preexisting"
                              /\ zone_pairs[j].source \in reached}}
    IN  IF more \subseteq reached THEN reached
        ELSE PreexistingFrom(zone_pairs, reached \cup more)

\* C40: after propagate_discovery(source, target), for a target that was no
\* discovered node before, the discovered links hold (source, target), every
\* zone that preexisting links reach from target is a discovered node, and
\* the returned list is the links this call added.
PropagationReachesPreexisting ==
    (lastOp.op = "propagate" /\ lastOp.target \notin get_discovered_nodes(lastOp.before)) =>
        /\ \E i \in DOMAIN serverGame.discovered_links :
              serverGame.discovered_links[i] = [source |-> lastOp.source, target |-> lastOp.target]
        /\ PreexistingFrom(serverGame.zone_pairs, {lastOp.target})
              \subseteq get_discovered_nodes(serverGame.discovered_links)
        /\ serverGame.discovered_links = lastOp.before \o lastOp.returned

=============================================================================
